---- MODULE Spec2Model ----
(***************************************************************************)
(* bookbuilder: the cache-aware conversion and assembly pipeline.          *)
(*                                                                         *)
(* The model follows src/bookbuilder/convert.py (cache decision, per-file  *)
(* conversion, batch conversion) and src/bookbuilder/combine.py (chapter   *)
(* collection, page-offset planning, TOC, merge).  A path is a record      *)
(* [dir, stem, ext]; the source tree is fixed, the output directory is the *)
(* variable disk.  The renderer and the PDF library are external: a render *)
(* writes a PDF whose page count depends on the source and on the settings *)
(* it was rendered with, or raises; a page-count probe returns the page    *)
(* count, or raises on a corrupt file.                                     *)
(*                                                                         *)
(* build_book passes content_settings to convert_files_parallel            *)
(* (combine.py:584); the convert.py under src/ predates that parameter     *)
(* (as utils.py predates process_details_tags, which formats.py imports).  *)
(* Details-tag processing is not modelled; the batch call is modelled with *)
(* the parameters convert.py declares.                                     *)
(***************************************************************************)
EXTENDS Integers, Sequences, FiniteSets, TLC

(***************************************************************************)
(* Bounds of the model.                                                    *)
(***************************************************************************)
\* longest manifest drawn from ChapterChoices
MaxChapters == 3
\* the time of the modelled builds; sources were last modified at or before it
Now == 2
\* largest max_workers hint given to convert_files_parallel
MaxWorkers == 2
\* longest run of single-file filler chapters (enough to overflow one TOC page)
MaxFiller == 22

(***************************************************************************)
(* Paths and the source tree.                                              *)
(***************************************************************************)
RootDir == "root"
OutputDir == "out"

Path(dir, stem, ext) == [dir |-> dir, stem |-> stem, ext |-> ext]
Ref(stem, ext) == [stem |-> stem, ext |-> ext]

\* None, as a path
NoPath == Path("none", "", "")

\* markdown sources that exist, with their modification times
MdMtime == [stem \in {"a", "b", "c", "bad"} |-> IF stem = "c" THEN 2 ELSE 1]
\* PDF sources that exist, with their page counts (scan is corrupt)
SourcePdfPages ==
    [stem \in {"p", "q", "scan", "cover", "back"} |->
        CASE stem = "p" -> 3
          [] stem = "q" -> 1
          [] stem = "scan" -> 2
          [] stem = "cover" -> 2
          [] stem = "back" -> 1]
CorruptPdfs == {Path(RootDir, "scan", "pdf")}
\* markdown sources on which the rendering engine raises
UnrenderableSources == {Path(RootDir, "bad", "md")}

SourceTree ==
    {Path(RootDir, s, "md") : s \in DOMAIN MdMtime}
        \cup {Path(RootDir, s, "pdf") : s \in DOMAIN SourcePdfPages}
        \cup {Path(RootDir, "x", "txt")}

\* page count of the PDF the engine renders from a markdown source: with the
\* manifest's page and style settings, or with the built-in defaults
RenderedPages(md_path, style) ==
    CASE md_path.stem = "a" -> IF style = "manifest" THEN 2 ELSE 3
      [] md_path.stem = "b" -> 1
      [] md_path.stem = "c" -> IF style = "manifest" THEN 3 ELSE 2
      [] OTHER -> 1

\* convert.py:171-193
get_output_pdf_path(md_path) ==
    Path(OutputDir, md_path.stem, "pdf")

\* combine.py:505-507 and 646-648, with the default outputFilename and tocFilename
output_file == Path(OutputDir, "book", "pdf")
toc_pdf == Path(OutputDir, "_toc", "pdf")

MdStems == DOMAIN MdMtime \cup {"gone"}
OutputPaths == {Path(OutputDir, s, "pdf") : s \in MdStems} \cup {output_file, toc_pdf}

NoFile == [exists |-> FALSE, mtime |-> 0, pages |-> 0, style |-> "none"]
File(mtime, pages, style) ==
    [exists |-> TRUE, mtime |-> mtime, pages |-> pages, style |-> style]

\* the output directory before the first modelled build: b.md has a PDF as new
\* as its source, c.md has a PDF older than its source, the others have none
InitialDisk ==
    [p \in OutputPaths |->
        CASE p.stem = "b" -> File(1, 1, "manifest")
          [] p.stem = "c" -> File(1, 4, "manifest")
          [] OTHER -> NoFile]

\* an output directory without any PDF
EmptyDisk == [p \in OutputPaths |-> NoFile]

\* os.path.exists
exists(path, d) ==
    IF path.dir = OutputDir THEN path \in DOMAIN d /\ d[path].exists
    ELSE path \in SourceTree

\* os.path.getmtime
getmtime(path, d) ==
    IF path.dir = OutputDir THEN d[path].mtime ELSE MdMtime[path.stem]

\* PdfReader(path).pages of a readable PDF
PdfPages(path, d) ==
    IF path.dir = OutputDir THEN d[path].pages ELSE SourcePdfPages[path.stem]

Readable(path, d) == exists(path, d) /\ path \notin CorruptPdfs

EndsWithMd(path) == path.ext = "md"
EndsWithPdf(path) == path.ext = "pdf"

(***************************************************************************)
(* combine.py: page count probe and path resolution.                       *)
(***************************************************************************)
\* combine.py:44-65
safe_get_page_count(pdf_path, d) ==
    IF Readable(pdf_path, d) THEN PdfPages(pdf_path, d) ELSE 0

\* combine.py:68-103 (references are relative to the root)
resolve_file_path(file_ref) ==
    LET abs_path == Path(RootDir, file_ref.stem, file_ref.ext)
        md_path == Path(RootDir, file_ref.stem, "md")
        pdf_path == Path(RootDir, file_ref.stem, "pdf")
    IN  IF abs_path \in SourceTree THEN abs_path
        ELSE IF file_ref.ext = "" /\ md_path \in SourceTree THEN md_path
        ELSE IF file_ref.ext = "" /\ pdf_path \in SourceTree THEN pdf_path
        ELSE abs_path

\* combine.py:172-201 (explicit files only)
collect_files_for_chapter(chapter) ==
    [i \in 1..Len(chapter.files) |-> resolve_file_path(chapter.files[i])]

(***************************************************************************)
(* convert.py: the cache decision and the conversion of one file.          *)
(***************************************************************************)
is_conversion_needed_ge(md_path, pdf_path, force, d) ==
    IF force THEN TRUE
    ELSE IF ~exists(pdf_path, d) THEN TRUE
    ELSE getmtime(md_path, d) >= getmtime(pdf_path, d)

\* convert.py:196-218
is_conversion_needed(md_path, pdf_path, force, d) ==
    IF force THEN TRUE
    ELSE IF ~exists(pdf_path, d) THEN TRUE
    ELSE getmtime(md_path, d) > getmtime(pdf_path, d)

Result(pdf_path, was_converted, error, d, rendered) ==
    [pdf_path |-> pdf_path, was_converted |-> was_converted, error |-> error,
     disk |-> d, rendered |-> rendered]

convert_markdown_to_pdf_uncached(md_path, pdf_path, style, force, d) ==
    IF md_path \in UnrenderableSources
    THEN Result(NoPath, FALSE, "raised", d, TRUE)
    ELSE Result(pdf_path, TRUE, "",
                [d EXCEPT ![pdf_path] = File(Now, RenderedPages(md_path, style), style)],
                TRUE)

convert_markdown_to_pdf_comparing_settings(md_path, pdf_path, style, force, d) ==
    IF ~is_conversion_needed(md_path, pdf_path, force, d) /\ d[pdf_path].style = style
    THEN Result(pdf_path, FALSE, "", d, FALSE)
    ELSE IF md_path \in UnrenderableSources
    THEN Result(NoPath, FALSE, "raised", d, TRUE)
    ELSE Result(pdf_path, TRUE, "",
                [d EXCEPT ![pdf_path] = File(Now, RenderedPages(md_path, style), style)],
                TRUE)

\* convert.py:221-473; style is "manifest" when page settings, style settings
\* and anchor map are passed and "default" when they are left out
convert_markdown_to_pdf(md_path, pdf_path, style, force, d) ==
    IF ~is_conversion_needed(md_path, pdf_path, force, d)
    THEN Result(pdf_path, FALSE, "", d, FALSE)
    ELSE IF md_path \in UnrenderableSources
    THEN Result(NoPath, FALSE, "raised", d, TRUE)
    ELSE Result(pdf_path, TRUE, "",
                [d EXCEPT ![pdf_path] = File(Now, RenderedPages(md_path, style), style)],
                TRUE)

\* convert.py:476-541
convert_file(file_path, force, style, d) ==
    IF EndsWithPdf(file_path)
    THEN IF exists(file_path, d)
         THEN Result(file_path, FALSE, "", d, FALSE)
         ELSE Result(NoPath, FALSE, "PDF not found", d, FALSE)
    ELSE IF EndsWithMd(file_path)
    THEN IF ~exists(file_path, d)
         THEN Result(NoPath, FALSE, "MD file not found", d, FALSE)
         ELSE LET r == convert_markdown_to_pdf(
                           file_path, get_output_pdf_path(file_path), style, force, d)
              IN  IF r.error = "raised"
                  THEN Result(NoPath, FALSE, "render error", d, TRUE)
                  ELSE r
    ELSE Result(NoPath, FALSE, "Unsupported file type", d, FALSE)

\* combine.py:139-169
get_pdf_for_file(file_path, force, d) ==
    IF EndsWithPdf(file_path)
    THEN IF exists(file_path, d)
         THEN Result(file_path, FALSE, "", d, FALSE)
         ELSE Result(NoPath, FALSE, "PDF not found", d, FALSE)
    ELSE IF EndsWithMd(file_path)
    THEN convert_file(file_path, force, "default", d)
    ELSE Result(NoPath, FALSE, "Unsupported file type", d, FALSE)

(***************************************************************************)
(* The manifest (order JSON).                                              *)
(***************************************************************************)
Chapter(section, files) == [section |-> section, files |-> files]

FrontCoverChapter ==
    Chapter("Front Cover", <<Ref("gonepdf", "pdf"), Ref("cover", "pdf"), Ref("p", "pdf")>>)
BackCoverChapter == Chapter("Back Cover", <<Ref("back", "pdf")>>)
\* a fresh source given without extension, a cached source, a source PDF
IntroChapter == Chapter("Intro", <<Ref("a", ""), Ref("b", "md"), Ref("p", "pdf")>>)
\* a source the engine fails on, a source with a stale PDF, a corrupt PDF
NotesChapter == Chapter("Notes", <<Ref("bad", "md"), Ref("c", "md"), Ref("scan", "pdf")>>)
\* nothing usable: a missing source, an unsupported type, a missing PDF
GhostChapter == Chapter("Ghost", <<Ref("gone", "md"), Ref("x", "txt"), Ref("gonepdf", "pdf")>>)
FillerChapter == Chapter("Filler", <<Ref("q", "pdf")>>)

ChapterChoices ==
    {FrontCoverChapter, BackCoverChapter, IntroChapter, NotesChapter, GhostChapter}

ShortManifests == UNION {[1..n -> ChapterChoices] : n \in 0..MaxChapters}
\* one optional chapter followed by a run of filler chapters
LongManifests ==
    {base \o [i \in 1..n |-> FillerChapter] :
        base \in UNION {[1..k -> ChapterChoices] : k \in 0..1},
        n \in (MaxFiller - 1)..MaxFiller}
Manifests == ShortManifests \cup LongManifests

(***************************************************************************)
(* build_book, first pass: the chapters of the manifest are split into     *)
(* cover files, chapter data and the markdown files to convert.            *)
(***************************************************************************)
NoParts ==
    [chapter_data |-> <<>>, front_cover_files |-> <<>>, back_cover_files |-> <<>>,
     all_files_to_convert |-> <<>>]

split_chapter_no_sentinel(parts, chapter) ==
    LET files == collect_files_for_chapter(chapter)
    IN  [chapter_data |->
            Append(parts.chapter_data, [section |-> chapter.section, files |-> files]),
         front_cover_files |->
            IF chapter.section = "Front Cover" THEN files ELSE parts.front_cover_files,
         back_cover_files |->
            IF chapter.section = "Back Cover" THEN files ELSE parts.back_cover_files,
         all_files_to_convert |->
            parts.all_files_to_convert \o SelectSeq(files, EndsWithMd)]

\* combine.py:458-472, one iteration of the loop over the chapters
split_chapter(parts, chapter) ==
    LET files == collect_files_for_chapter(chapter)
    IN  [chapter_data |->
            IF chapter.section \notin {"Front Cover", "Back Cover"}
            THEN Append(parts.chapter_data, [section |-> chapter.section, files |-> files])
            ELSE parts.chapter_data,
         front_cover_files |->
            IF chapter.section = "Front Cover" THEN files ELSE parts.front_cover_files,
         back_cover_files |->
            IF chapter.section = "Back Cover" THEN files ELSE parts.back_cover_files,
         all_files_to_convert |->
            parts.all_files_to_convert \o SelectSeq(files, EndsWithMd)]

RECURSIVE split_chapters(_, _, _)
\* combine.py:453-472
split_chapters(chapters, i, parts) ==
    IF i > Len(chapters) THEN parts
    ELSE split_chapters(chapters, i + 1, split_chapter(parts, chapters[i]))

(***************************************************************************)
(* build_book, second pass: covers, chapters and page offsets.             *)
(***************************************************************************)
RECURSIVE sum_page_counts(_, _, _)
\* combine.py:611, sum(safe_get_page_count(pdf) for pdf in ordered_pdfs)
sum_page_counts(pdfs, i, d) ==
    IF i > Len(pdfs) THEN 0
    ELSE safe_get_page_count(pdfs[i], d) + sum_page_counts(pdfs, i + 1, d)

RECURSIVE first_usable_pdf(_, _, _, _)
\* combine.py:601-607 and 630-636: the first file with a PDF is the cover
first_usable_pdf(files, i, force, d) ==
    IF i > Len(files) THEN [pdf |-> NoPath, disk |-> d]
    ELSE LET r == get_pdf_for_file(files[i], force, d)
         IN  IF r.pdf_path # NoPath /\ exists(r.pdf_path, r.disk)
             THEN [pdf |-> r.pdf_path, disk |-> r.disk]
             ELSE first_usable_pdf(files, i + 1, force, r.disk)

RECURSIVE cover_engine_calls(_, _, _, _, _)
\* combine.py:600-607 and 629-636: the sources get_pdf_for_file hands to the
\* engine until a usable PDF is found
cover_engine_calls(files, i, force, d, calls) ==
    IF i > Len(files) THEN calls
    ELSE LET r == get_pdf_for_file(files[i], force, d)
             counted == IF r.rendered THEN [calls EXCEPT ![files[i]] = @ + 1] ELSE calls
         IN  IF r.pdf_path # NoPath /\ exists(r.pdf_path, r.disk) THEN counted
             ELSE cover_engine_calls(files, i + 1, force, r.disk, counted)

RECURSIVE chapter_engine_calls(_, _, _, _, _)
\* combine.py:614-615: the sources get_pdf_for_file hands to the engine
chapter_engine_calls(files, i, force, d, calls) ==
    IF i > Len(files) THEN calls
    ELSE LET r == get_pdf_for_file(files[i], force, d)
         IN  chapter_engine_calls(files, i + 1, force, r.disk,
                 IF r.rendered THEN [calls EXCEPT ![files[i]] = @ + 1] ELSE calls)

RECURSIVE chapter_pdfs_of(_, _, _, _, _)
\* combine.py:612-619
chapter_pdfs_of(files, i, force, d, pdfs) ==
    IF i > Len(files) THEN [pdfs |-> pdfs, disk |-> d]
    ELSE LET r == get_pdf_for_file(files[i], force, d)
         IN  chapter_pdfs_of(files, i + 1, force, r.disk,
                 IF r.pdf_path # NoPath /\ exists(r.pdf_path, r.disk)
                 THEN Append(pdfs, r.pdf_path) ELSE pdfs)

chapter_entry_zero_based(section_name, page_start, chapter_pdfs) ==
    [section |-> section_name, page |-> page_start, files |-> Len(chapter_pdfs)]

keeps_chapter_always(chapter_pdfs) == TRUE

\* combine.py:621
keeps_chapter(chapter_pdfs) == chapter_pdfs # <<>>

\* combine.py:623-627
chapter_entry(section_name, page_start, chapter_pdfs) ==
    [section |-> section_name, page |-> page_start + 1, files |-> Len(chapter_pdfs)]

\* combine.py:640
toc_pages == 1

\* combine.py:639-641
front_matter_offset(front_cover, d) ==
    (IF front_cover # NoPath THEN safe_get_page_count(front_cover, d) ELSE 0) + toc_pages

(***************************************************************************)
(* create_toc_page: the number of pages the canvas emits, in tenths of an  *)
(* inch (letter is 11 inches high).                                        *)
(***************************************************************************)
PageHeight == 110
TocFirstY == 30
TocLineStep == 3
TocBottom == 15
TocNextY == 15

RECURSIVE toc_show_pages(_, _)
\* combine.py:255-272: the showPage calls made while n entries are drawn
toc_show_pages(n, y_position) ==
    IF n = 0 THEN 0
    ELSE IF y_position - TocLineStep < TocBottom
         THEN 1 + toc_show_pages(n - 1, PageHeight - TocNextY)
         ELSE toc_show_pages(n - 1, y_position - TocLineStep)

\* combine.py:238-280: the footer is drawn on the last page, then save()
toc_page_count(chapter_info) ==
    toc_show_pages(Len(chapter_info), PageHeight - TocFirstY) + 1

(***************************************************************************)
(* State.                                                                  *)
(***************************************************************************)
VARIABLES
    manifest,               \* order_json['chapters']
    disk,                   \* the files of the output directory
    pc,                     \* the position of build_book
    force,                  \* the force flag of the running build
    chapter_data,           \* (section, files) of the non-cover chapters
    front_cover_files,
    back_cover_files,
    all_files_to_convert,   \* the markdown files of all chapters
    max_workers,            \* convert_files_parallel: the hint (0 outside the call)
    md_index,               \* convert_files_parallel: next entry of md_files
    rendering,              \* entries of md_files the engine is rendering
    batch,                  \* convert_files_parallel: pdf_paths and the two tallies
    ordered_pdfs,
    chapter_info,
    front_cover,
    back_cover,
    chapter_index,          \* build_book: chapters of chapter_data processed
    toc_lines,              \* the lines create_toc_page has drawn
    merger,                 \* combine: the append calls made, in order
    outline,                \* combine: the outline items added, in order
    current_page,
    pdf_index,
    merge_chapter,          \* combine: chapters of chapter_info entered
    merge_left,             \* combine: iterations left of range(chapter['files'])
    book,                   \* what merger.write put into the output file
    prev,                   \* the outcome of the previous build
    call,                   \* a call of a text or path helper: its arguments and result
    order_file,             \* the order JSON: "ok", "missing" or "malformed"
    output_dir_exists,      \* the output directory has been created
    engine_calls            \* how often each source went to the rendering engine

vars ==
    <<manifest, disk, pc, force, chapter_data, front_cover_files, back_cover_files,
      all_files_to_convert, max_workers, md_index, rendering, batch, ordered_pdfs,
      chapter_info, front_cover, back_cover, chapter_index, toc_lines, merger,
      outline, current_page, pdf_index, merge_chapter, merge_left, book, prev, call,
      order_file, output_dir_exists, engine_calls>>

input_vars == <<manifest, call, order_file>>
split_vars ==
    <<chapter_data, front_cover_files, back_cover_files, all_files_to_convert,
      output_dir_exists>>
batch_vars == <<max_workers, md_index, rendering, batch, engine_calls>>
plan_vars == <<ordered_pdfs, chapter_info, front_cover, back_cover, chapter_index>>
merge_vars == <<merger, outline, current_page, pdf_index, merge_chapter, merge_left, book>>

\* no source has gone to the engine
NoEngineCalls == [md \in {Path(RootDir, stem, "md") : stem \in DOMAIN MdMtime} |-> 0]
NoBatch == [pdf_paths |-> <<>>, converted_count |-> 0, failed_count |-> 0, ran |-> FALSE]
NoBook == [written |-> FALSE, merger |-> <<>>, outline |-> <<>>]
NoPrev ==
    [valid |-> FALSE, force |-> FALSE, pages |-> <<>>, converted |-> 0, cached |-> 0,
     failed |-> 0]
NoCall == [op |-> "none", done |-> FALSE]

\* no build has started
IdleBuild ==
    /\ pc = "idle"
    /\ force = FALSE
    /\ chapter_data = <<>>
    /\ front_cover_files = <<>>
    /\ back_cover_files = <<>>
    /\ all_files_to_convert = <<>>
    /\ max_workers = 0
    /\ md_index = 1
    /\ rendering = {}
    /\ batch = NoBatch
    /\ ordered_pdfs = <<>>
    /\ chapter_info = <<>>
    /\ front_cover = NoPath
    /\ back_cover = NoPath
    /\ chapter_index = 0
    /\ toc_lines = <<>>
    /\ merger = <<>>
    /\ outline = <<>>
    /\ current_page = 0
    /\ pdf_index = 1
    /\ merge_chapter = 0
    /\ merge_left = 0
    /\ book = NoBook
    /\ prev = NoPrev
    /\ engine_calls = NoEngineCalls

\* the order file is read into manifest when the build starts; earlier builds
\* have left PDFs in the output directory, or (before a build whose order
\* file cannot be read) there is no output directory yet
Init ==
    /\ \/ order_file = "ok" /\ manifest \in Manifests /\ disk = InitialDisk
       \/ /\ order_file \in {"missing", "malformed"}
          /\ manifest = <<>>
          /\ disk \in {InitialDisk, EmptyDisk}
    /\ output_dir_exists = (disk # EmptyDisk)
    /\ IdleBuild
    /\ call = NoCall

\* what a finished build reports: the chapter pages and the conversion counts
Outcome ==
    [valid |-> TRUE, force |-> force,
     pages |-> [i \in 1..Len(chapter_info) |-> chapter_info[i].page],
     converted |-> batch.converted_count,
     cached |-> Len(batch.pdf_paths) - batch.converted_count,
     failed |-> batch.failed_count]

(***************************************************************************)
(* build_book, combine.py:360-507: the manifest is read and split.         *)
(***************************************************************************)
StartBuild(f) ==
    /\ pc \in {"idle", "done"}
    /\ order_file = "ok"
    /\ output_dir_exists' = TRUE
    /\ LET parts == split_chapters(manifest, 1, NoParts)
       IN  /\ chapter_data' = parts.chapter_data
           /\ front_cover_files' = parts.front_cover_files
           /\ back_cover_files' = parts.back_cover_files
           /\ all_files_to_convert' = parts.all_files_to_convert
           /\ pc' = IF parts.all_files_to_convert # <<>> THEN "convert" ELSE "front"
    /\ force' = f
    /\ prev' = IF pc = "done" THEN Outcome ELSE prev
    /\ max_workers' = 0
    /\ md_index' = 1
    /\ rendering' = {}
    /\ batch' = NoBatch
    /\ ordered_pdfs' = <<>>
    /\ chapter_info' = <<>>
    /\ front_cover' = NoPath
    /\ back_cover' = NoPath
    /\ chapter_index' = 0
    /\ toc_lines' = <<>>
    /\ merger' = <<>>
    /\ outline' = <<>>
    /\ current_page' = 0
    /\ pdf_index' = 1
    /\ merge_chapter' = 0
    /\ merge_left' = 0
    /\ book' = NoBook
    /\ engine_calls' = NoEngineCalls
    /\ UNCHANGED <<input_vars, disk>>

\* combine.py:360-417 with the output directory made before the order file
\* is opened
BuildBookRaisesAfterEnsureDir ==
    /\ pc = "idle"
    /\ order_file # "ok"
    /\ pc' = IF order_file = "missing" THEN "FileNotFoundError" ELSE "JSONDecodeError"
    /\ output_dir_exists' = TRUE
    /\ UNCHANGED <<input_vars, disk, force, chapter_data, front_cover_files,
                   back_cover_files, all_files_to_convert, batch_vars, plan_vars,
                   toc_lines, merge_vars, prev>>

\* combine.py:360-417: open raises on a missing order file, json.load on a
\* malformed one
BuildBookRaises ==
    /\ pc = "idle"
    /\ order_file # "ok"
    /\ pc' = IF order_file = "missing" THEN "FileNotFoundError" ELSE "JSONDecodeError"
    /\ UNCHANGED <<input_vars, disk, force, split_vars, batch_vars, plan_vars, toc_lines,
                   merge_vars, prev>>

(***************************************************************************)
(* convert_files_parallel, convert.py:544-622.                             *)
(***************************************************************************)
md_files == SelectSeq(all_files_to_convert, EndsWithMd)
pdf_files == SelectSeq(all_files_to_convert, EndsWithPdf)

\* convert.py:579-597: the call, with any max_workers hint
ConvertFilesBegin(w) ==
    /\ pc = "convert"
    /\ max_workers = 0
    /\ max_workers' = w
    /\ md_index' = 1
    /\ rendering' = {}
    /\ batch' =
        [pdf_paths |-> SelectSeq(pdf_files, LAMBDA f : exists(f, disk)),
         converted_count |-> 0,
         failed_count |-> Len(SelectSeq(pdf_files, LAMBDA f : ~exists(f, disk))),
         ran |-> TRUE]
    /\ UNCHANGED <<input_vars, disk, pc, force, split_vars, engine_calls, plan_vars, toc_lines,
                   merge_vars, prev>>

can_issue_up_to_hint(in_progress, hint) == Cardinality(in_progress) < hint

\* convert.py:600-604: convert_file is called in the loop's own thread, so the
\* next call is made after the previous one returned, whatever the hint
can_issue(in_progress, hint) == in_progress = {}

\* convert.py:605-620, the tallies after one convert_file call
tally(b, r) ==
    IF r.error # ""
    THEN [b EXCEPT !.failed_count = @ + 1]
    ELSE [b EXCEPT !.pdf_paths = Append(@, r.pdf_path),
                   !.converted_count = IF r.was_converted THEN @ + 1 ELSE @]

\* whether convert_file reaches the rendering engine for this file
reaches_engine(md_file, d) ==
    /\ exists(md_file, d)
    /\ is_conversion_needed(md_file, get_output_pdf_path(md_file), force, d)

\* convert.py:600-616: a file that is missing or cached is settled at once
ConvertSettled ==
    /\ pc = "convert"
    /\ max_workers > 0
    /\ md_index <= Len(md_files)
    /\ can_issue(rendering, max_workers)
    /\ ~reaches_engine(md_files[md_index], disk)
    /\ LET r == convert_file(md_files[md_index], force, "manifest", disk)
       IN  /\ batch' = tally(batch, r)
           /\ disk' = r.disk
    /\ md_index' = md_index + 1
    /\ UNCHANGED <<input_vars, pc, force, split_vars, max_workers, rendering, engine_calls,
                   plan_vars,
                   toc_lines, merge_vars, prev>>

\* convert.py:472 entered: the engine starts to render the file
RenderStart ==
    /\ pc = "convert"
    /\ max_workers > 0
    /\ md_index <= Len(md_files)
    /\ can_issue(rendering, max_workers)
    /\ reaches_engine(md_files[md_index], disk)
    /\ rendering' = rendering \cup {md_index}
    /\ md_index' = md_index + 1
    /\ engine_calls' = [engine_calls EXCEPT ![md_files[md_index]] = @ + 1]
    /\ UNCHANGED <<input_vars, disk, pc, force, split_vars, max_workers, batch,
                   plan_vars,
                   toc_lines, merge_vars, prev>>

\* convert.py:472-473 and 605-620: the engine returns or raises
RenderFinish(i) ==
    /\ pc = "convert"
    /\ i \in rendering
    /\ LET r == convert_file(md_files[i], force, "manifest", disk)
       IN  /\ batch' = tally(batch, r)
           /\ disk' = r.disk
    /\ rendering' = rendering \ {i}
    /\ UNCHANGED <<input_vars, pc, force, split_vars, max_workers, md_index,
                   engine_calls, plan_vars,
                   toc_lines, merge_vars, prev>>

ConvertFilesReturnOnFailure ==
    /\ pc = "convert"
    /\ max_workers > 0
    /\ md_index > Len(md_files) \/ batch.failed_count > 0
    /\ rendering = {}
    /\ pc' = "front"
    /\ max_workers' = 0
    /\ UNCHANGED <<input_vars, disk, force, split_vars, md_index, rendering, batch,
                   engine_calls,
                   plan_vars, toc_lines, merge_vars, prev>>

\* convert.py:622
ConvertFilesReturn ==
    /\ pc = "convert"
    /\ max_workers > 0
    /\ md_index > Len(md_files)
    /\ rendering = {}
    /\ pc' = "front"
    /\ max_workers' = 0
    /\ UNCHANGED <<input_vars, disk, force, split_vars, md_index, rendering, batch,
                   engine_calls,
                   plan_vars, toc_lines, merge_vars, prev>>

(***************************************************************************)
(* build_book, combine.py:595-649: covers, chapters, offset, TOC.          *)
(***************************************************************************)
\* combine.py:600-607
ProcessFrontCover ==
    /\ pc = "front"
    /\ LET r == first_usable_pdf(front_cover_files, 1, force, disk)
       IN  /\ front_cover' = r.pdf
           /\ disk' = r.disk
    /\ engine_calls' = cover_engine_calls(front_cover_files, 1, force, disk, engine_calls)
    /\ pc' = "chapters"
    /\ UNCHANGED <<input_vars, force, split_vars, max_workers, md_index, rendering, batch,
                   ordered_pdfs, chapter_info,
                   back_cover, chapter_index, toc_lines, merge_vars, prev>>

\* combine.py:610-627, one iteration of the loop over chapter_data
ProcessChapter ==
    /\ pc = "chapters"
    /\ chapter_index < Len(chapter_data)
    /\ LET chapter == chapter_data[chapter_index + 1]
           page_start == sum_page_counts(ordered_pdfs, 1, disk)
           r == chapter_pdfs_of(chapter.files, 1, force, disk, <<>>)
       IN  /\ disk' = r.disk
           /\ IF keeps_chapter(r.pdfs)
              THEN /\ ordered_pdfs' = ordered_pdfs \o r.pdfs
                   /\ chapter_info' =
                        Append(chapter_info,
                               chapter_entry(chapter.section, page_start, r.pdfs))
              ELSE UNCHANGED <<ordered_pdfs, chapter_info>>
    /\ engine_calls' =
           chapter_engine_calls(chapter_data[chapter_index + 1].files, 1, force, disk,
                                engine_calls)
    /\ chapter_index' = chapter_index + 1
    /\ UNCHANGED <<input_vars, pc, force, split_vars, max_workers, md_index, rendering, batch,
                   front_cover, back_cover,
                   toc_lines, merge_vars, prev>>

\* combine.py:629-636
ProcessBackCover ==
    /\ pc = "chapters"
    /\ chapter_index = Len(chapter_data)
    /\ LET r == first_usable_pdf(back_cover_files, 1, force, disk)
       IN  /\ back_cover' = r.pdf
           /\ disk' = r.disk
    /\ engine_calls' = cover_engine_calls(back_cover_files, 1, force, disk, engine_calls)
    /\ pc' = "adjust"
    /\ UNCHANGED <<input_vars, force, split_vars, max_workers, md_index, rendering, batch,
                   ordered_pdfs, chapter_info,
                   front_cover, chapter_index, toc_lines, merge_vars, prev>>

\* combine.py:638-644
AdjustPageNumbers ==
    /\ pc = "adjust"
    /\ LET offset == front_matter_offset(front_cover, disk)
       IN  chapter_info' =
               [i \in 1..Len(chapter_info) |->
                   [chapter_info[i] EXCEPT !.page = @ + offset]]
    /\ pc' = "toc"
    /\ UNCHANGED <<input_vars, disk, force, split_vars, batch_vars, ordered_pdfs,
                   front_cover, back_cover, chapter_index, toc_lines, merge_vars, prev>>

\* combine.py:646-649 and 204-280 with the offset added while the TOC is drawn
CreateTocPageAddingOffset ==
    /\ pc = "toc"
    /\ chapter_info' =
           [i \in 1..Len(chapter_info) |->
               [chapter_info[i] EXCEPT !.page = @ + front_matter_offset(front_cover, disk)]]
    /\ toc_lines' =
        [i \in 1..Len(chapter_info) |->
            [section |-> chapter_info[i].section, page |-> chapter_info'[i].page]]
    /\ disk' = [disk EXCEPT ![toc_pdf] = File(Now, toc_page_count(chapter_info), "toc")]
    /\ pc' = "merge_front"
    /\ UNCHANGED <<input_vars, force, split_vars, batch_vars, ordered_pdfs, front_cover,
                   back_cover, chapter_index, merge_vars, prev>>

\* combine.py:646-649 and 204-280
CreateTocPage ==
    /\ pc = "toc"
    /\ toc_lines' =
        [i \in 1..Len(chapter_info) |->
            [section |-> chapter_info[i].section, page |-> chapter_info[i].page]]
    /\ disk' = [disk EXCEPT ![toc_pdf] = File(Now, toc_page_count(chapter_info), "toc")]
    /\ pc' = "merge_front"
    /\ UNCHANGED <<input_vars, force, split_vars, batch_vars, plan_vars, merge_vars, prev>>

(***************************************************************************)
(* combine_pdfs_with_bookmarks, combine.py:283-357.                        *)
(***************************************************************************)
\* merger.append(path): the pages of a readable PDF are added; on an
\* unreadable one the library raises and the caller's except clause goes on
Appended(what, path, d) ==
    [what |-> what, path |-> path,
     ok |-> Readable(path, d),
     pages |-> IF Readable(path, d) THEN PdfPages(path, d) ELSE 0]

\* os.path.isfile
isfile(path, d) == exists(path, d)

\* combine.py:302-314
MergeFrontCover ==
    /\ pc = "merge_front"
    /\ IF front_cover # NoPath /\ isfile(front_cover, disk)
       THEN LET a == Appended("front", front_cover, disk)
            IN  /\ merger' = Append(merger, a)
                /\ current_page' =
                     IF a.ok THEN current_page + safe_get_page_count(front_cover, disk)
                     ELSE current_page
       ELSE UNCHANGED <<merger, current_page>>
    /\ pc' = "merge_toc"
    /\ UNCHANGED <<input_vars, disk, force, split_vars, batch_vars, plan_vars, toc_lines,
                   outline, pdf_index, merge_chapter, merge_left, book, prev>>

\* combine.py:316-326
MergeToc ==
    /\ pc = "merge_toc"
    /\ LET a == Appended("toc", toc_pdf, disk)
       IN  /\ merger' = Append(merger, a)
           /\ current_page' =
                IF a.ok THEN current_page + safe_get_page_count(toc_pdf, disk)
                ELSE current_page
    /\ pdf_index' = 1
    /\ pc' = "merge_chapters"
    /\ UNCHANGED <<input_vars, disk, force, split_vars, batch_vars, plan_vars, toc_lines,
                   outline, merge_chapter, merge_left, book, prev>>

outline_item_after(chapter, page) == [title |-> chapter.section, page |-> page + 1]

\* combine.py:329
outline_item(chapter, page) == [title |-> chapter.section, page |-> page]

\* combine.py:328-329: the next chapter is entered and gets its bookmark
MergeOutline ==
    /\ pc = "merge_chapters"
    /\ merge_left = 0
    /\ merge_chapter < Len(chapter_info)
    /\ outline' = Append(outline, outline_item(chapter_info[merge_chapter + 1], current_page))
    /\ merge_chapter' = merge_chapter + 1
    /\ merge_left' = chapter_info[merge_chapter + 1].files
    /\ UNCHANGED <<input_vars, disk, pc, force, split_vars, batch_vars, plan_vars,
                   toc_lines, merger, current_page, pdf_index, book, prev>>

\* combine.py:331-340 without the except clause around merger.append
MergeAppendRaising ==
    /\ pc = "merge_chapters"
    /\ merge_left > 0
    /\ IF pdf_index <= Len(ordered_pdfs)
       THEN LET pdf == ordered_pdfs[pdf_index]
                page_count == safe_get_page_count(pdf, disk)
                a == Appended("content", pdf, disk)
            IN  /\ merger' = Append(merger, a)
                /\ current_page' = IF a.ok THEN current_page + page_count ELSE current_page
                /\ pdf_index' = pdf_index + 1
                /\ pc' = IF a.ok THEN pc ELSE "PdfReadError"
       ELSE UNCHANGED <<merger, current_page, pdf_index, pc>>
    /\ merge_left' = merge_left - 1
    /\ UNCHANGED <<input_vars, disk, force, split_vars, batch_vars, plan_vars,
                   toc_lines, outline, merge_chapter, book, prev>>

\* combine.py:331-340 with the index advanced only after a successful append
MergeAppendKeepingIndex ==
    /\ pc = "merge_chapters"
    /\ merge_left > 0
    /\ IF pdf_index <= Len(ordered_pdfs)
       THEN LET pdf == ordered_pdfs[pdf_index]
                page_count == safe_get_page_count(pdf, disk)
                a == Appended("content", pdf, disk)
            IN  /\ merger' = Append(merger, a)
                /\ current_page' = IF a.ok THEN current_page + page_count ELSE current_page
                /\ pdf_index' = IF a.ok THEN pdf_index + 1 ELSE pdf_index
       ELSE UNCHANGED <<merger, current_page, pdf_index>>
    /\ merge_left' = merge_left - 1
    /\ UNCHANGED <<input_vars, disk, pc, force, split_vars, batch_vars, plan_vars,
                   toc_lines, outline, merge_chapter, book, prev>>

\* combine.py:331-340, one iteration of range(chapter['files'])
MergeAppend ==
    /\ pc = "merge_chapters"
    /\ merge_left > 0
    /\ IF pdf_index <= Len(ordered_pdfs)
       THEN LET pdf == ordered_pdfs[pdf_index]
                page_count == safe_get_page_count(pdf, disk)
                a == Appended("content", pdf, disk)
            IN  /\ merger' = Append(merger, a)
                /\ current_page' = IF a.ok THEN current_page + page_count ELSE current_page
                /\ pdf_index' = pdf_index + 1
       ELSE UNCHANGED <<merger, current_page, pdf_index>>
    /\ merge_left' = merge_left - 1
    /\ UNCHANGED <<input_vars, disk, pc, force, split_vars, batch_vars, plan_vars,
                   toc_lines, outline, merge_chapter, book, prev>>

MergeBackCoverEarly ==
    /\ pc = "merge_chapters"
    /\ merge_left = 0
    /\ merge_chapter >= 1 \/ chapter_info = <<>>
    /\ IF back_cover # NoPath /\ isfile(back_cover, disk)
       THEN merger' = Append(merger, Appended("back", back_cover, disk))
       ELSE UNCHANGED merger
    /\ pc' = "merge_write"
    /\ UNCHANGED <<input_vars, disk, force, split_vars, batch_vars, plan_vars, toc_lines,
                   outline, current_page, pdf_index, merge_chapter, merge_left, book,
                   prev>>

\* combine.py:345-352
MergeBackCover ==
    /\ pc = "merge_chapters"
    /\ merge_left = 0
    /\ merge_chapter = Len(chapter_info)
    /\ IF back_cover # NoPath /\ isfile(back_cover, disk)
       THEN merger' = Append(merger, Appended("back", back_cover, disk))
       ELSE UNCHANGED merger
    /\ pc' = "merge_write"
    /\ UNCHANGED <<input_vars, disk, force, split_vars, batch_vars, plan_vars, toc_lines,
                   outline, current_page, pdf_index, merge_chapter, merge_left, book,
                   prev>>

RECURSIVE total_pages(_, _)
total_pages(appended, i) ==
    IF i > Len(appended) THEN 0 ELSE appended[i].pages + total_pages(appended, i + 1)

\* combine.py:354-357 and 661-670
MergeWrite ==
    /\ pc = "merge_write"
    /\ book' = [written |-> TRUE, merger |-> merger, outline |-> outline]
    /\ disk' = [disk EXCEPT ![output_file] = File(Now, total_pages(merger, 1), "book")]
    /\ pc' = "done"
    /\ UNCHANGED <<input_vars, force, split_vars, batch_vars, plan_vars, toc_lines, merger,
                   outline, current_page, pdf_index, merge_chapter, merge_left, prev>>

Next ==
    \/ \E f \in BOOLEAN : StartBuild(f)
    \/ BuildBookRaises
    \/ \E w \in 1..MaxWorkers : ConvertFilesBegin(w)
    \/ ConvertSettled
    \/ RenderStart
    \/ \E i \in rendering : RenderFinish(i)
    \/ ConvertFilesReturn
    \/ ProcessFrontCover
    \/ ProcessChapter
    \/ ProcessBackCover
    \/ AdjustPageNumbers
    \/ CreateTocPage
    \/ MergeFrontCover
    \/ MergeToc
    \/ MergeOutline
    \/ MergeAppend
    \/ MergeBackCover
    \/ MergeWrite

Spec == Init /\ [][Next]_vars

(***************************************************************************)
(* Text.  A string is a sequence of characters; a character is a string of  *)
(* length one.  NonAscii stands for any character outside ASCII, Control   *)
(* for an ASCII control character.                                         *)
(***************************************************************************)
LowerCase ==
    <<"a", "b", "c", "d", "e", "f", "g", "h", "i", "j", "k", "l", "m", "n", "o", "p",
      "q", "r", "s", "t", "u", "v", "w", "x", "y", "z">>
UpperCase ==
    <<"A", "B", "C", "D", "E", "F", "G", "H", "I", "J", "K", "L", "M", "N", "O", "P",
      "Q", "R", "S", "T", "U", "V", "W", "X", "Y", "Z">>
Digits ==
    <<"0", "1", "2", "3", "4", "5", "6", "7", "8", "9">>
\* the printable ASCII characters, from code 32 to code 126 (the grave accent,
\* code 96, is written <grave>)
Ascii ==
    <<" ", "!", "\"", "#", "$", "%", "&", "'", "(", ")", "*", "+", ",", "-", ".",
      "/", "0", "1", "2", "3", "4", "5", "6", "7", "8", "9", ":", ";", "<", "=", ">",
      "?", "@", "A", "B", "C", "D", "E", "F", "G", "H", "I", "J", "K", "L", "M", "N",
      "O", "P", "Q", "R", "S", "T", "U", "V", "W", "X", "Y", "Z", "[", "\\", "]",
      "^", "_", "<grave>", "a", "b", "c", "d", "e", "f", "g", "h", "i", "j", "k", "l", "m",
      "n", "o", "p", "q", "r", "s", "t", "u", "v", "w", "x", "y", "z", "{", "|", "}",
      "~">>
NonAscii == "<u>"
Control == "<c>"

Range(seq) == {seq[i] : i \in DOMAIN seq}
IndexOf(seq, c) == CHOOSE i \in DOMAIN seq : seq[i] = c

\* matches [a-zA-Z0-9]
isalnum(c) == c \in Range(LowerCase) \cup Range(UpperCase) \cup Range(Digits)
\* matches [a-zA-Z]
isalpha(c) == c \in Range(LowerCase) \cup Range(UpperCase)
lower_char(c) == IF c \in Range(UpperCase) THEN LowerCase[IndexOf(UpperCase, c)] ELSE c
\* str.lower
lower(s) == [i \in DOMAIN s |-> lower_char(s[i])]
\* str.endswith, str.startswith
endswith(s, suffix) ==
    Len(s) >= Len(suffix) /\ SubSeq(s, Len(s) - Len(suffix) + 1, Len(s)) = suffix
startswith(s, prefix) == Len(s) >= Len(prefix) /\ SubSeq(s, 1, Len(prefix)) = prefix
\* s[:-n] and s[n:]
drop_last(s, n) == SubSeq(s, 1, Len(s) - n)
drop_first(s, n) == SubSeq(s, n + 1, Len(s))
DotMd == <<".", "m", "d">>
DotPdf == <<".", "p", "d", "f">>

HexDigits ==
    <<"0", "1", "2", "3", "4", "5", "6", "7", "8", "9", "a", "b", "c", "d", "e", "f">>
ishex(c) == lower_char(c) \in Range(HexDigits)
hexval(c) == IndexOf(HexDigits, lower_char(c)) - 1
\* the character of a byte unquote decoded (a byte of 128 or more is part of
\* a multi-byte character or is replaced: either way outside ASCII)
chr(n) ==
    IF n \in 32..126 THEN Ascii[n - 31]
    ELSE IF n >= 128 THEN NonAscii
    ELSE Control

RECURSIVE unquote(_)
\* urllib.parse.unquote: every %hh with two hex digits is decoded
unquote(s) ==
    IF s = <<>> THEN <<>>
    ELSE IF s[1] = "%" /\ Len(s) >= 3 /\ ishex(s[2]) /\ ishex(s[3])
         THEN <<chr(16 * hexval(s[2]) + hexval(s[3]))>> \o unquote(drop_first(s, 3))
    ELSE <<s[1]>> \o unquote(Tail(s))

RECURSIVE replace_char(_, _, _)
\* str.replace(c, by) for a single character c
replace_char(s, c, by) ==
    IF s = <<>> THEN <<>>
    ELSE (IF s[1] = c THEN by ELSE <<s[1]>>) \o replace_char(Tail(s), c, by)

RECURSIVE strip(_, _)
\* str.strip(c)
strip(s, c) ==
    IF s = <<>> THEN <<>>
    ELSE IF s[1] = c THEN strip(Tail(s), c)
    ELSE IF s[Len(s)] = c THEN strip(drop_last(s, 1), c)
    ELSE s

RECURSIVE sub_non_alnum(_, _)
\* re.sub of [^a-zA-Z0-9]+ by a hyphen; in_run: the previous character was replaced
sub_non_alnum(s, in_run) ==
    IF s = <<>> THEN <<>>
    ELSE IF isalnum(s[1]) THEN <<s[1]>> \o sub_non_alnum(Tail(s), FALSE)
    ELSE IF in_run THEN sub_non_alnum(Tail(s), TRUE)
    ELSE <<"-">> \o sub_non_alnum(Tail(s), TRUE)

\* utils.py:132-155 with a str.replace of spaces in place of the re.sub
filename_to_anchor_spaces_only(filename) ==
    LET name == IF endswith(lower(filename), DotMd) THEN drop_last(filename, 3)
                ELSE filename
    IN  strip(replace_char(lower(unquote(name)), " ", <<"-">>), "-")

\* utils.py:132-155
filename_to_anchor(filename) ==
    LET name == IF endswith(lower(filename), DotMd) THEN drop_last(filename, 3)
                ELSE filename
    IN  strip(sub_non_alnum(lower(unquote(name)), FALSE), "-")

RECURSIVE basename(_)
\* os.path.basename: what follows the last separator
basename(path) ==
    IF "/" \notin Range(path) THEN path
    ELSE basename(Tail(path))

RECURSIVE components_from(_, _)
\* the names between the separators of path; current is the name being read
components_from(path, current) ==
    LET done == IF current = <<>> THEN <<>> ELSE <<current>>
    IN  IF path = <<>> THEN done
        ELSE IF path[1] = "/" THEN done \o components_from(Tail(path), <<>>)
        ELSE components_from(Tail(path), Append(current, path[1]))

RECURSIVE normalized(_, _)
\* os.path.normpath of an absolute path, as its names: "." is dropped and
\* ".." removes the name before it (nothing at the root)
normalized(names, kept) ==
    IF names = <<>> THEN kept
    ELSE IF names[1] = <<".">> THEN normalized(Tail(names), kept)
    ELSE IF names[1] = <<".", ".">>
    THEN normalized(Tail(names), IF kept = <<>> THEN <<>> ELSE drop_last(kept, 1))
    ELSE normalized(Tail(names), Append(kept, names[1]))

\* os.path.abspath of an absolute path, as its names
abspath_names(path) == normalized(components_from(path, <<>>), <<>>)

RECURSIVE common_prefix(_, _)
\* the number of leading names two paths share
common_prefix(a, b) ==
    IF a = <<>> \/ b = <<>> \/ a[1] # b[1] THEN 0
    ELSE 1 + common_prefix(Tail(a), Tail(b))

RECURSIVE join_names(_)
\* os.path.join of names
join_names(names) ==
    IF names = <<>> THEN <<>>
    ELSE IF Len(names) = 1 THEN names[1]
    ELSE names[1] \o <<"/">> \o join_names(Tail(names))

\* os.path.relpath(path, start) for absolute paths: ".." for each name of
\* start below the common prefix, then the rest of path
relpath(path, start) ==
    LET path_list == abspath_names(path)
        start_list == abspath_names(start)
        i == common_prefix(start_list, path_list)
        rel_list == [k \in 1..(Len(start_list) - i) |-> <<".", ".">>]
                        \o SubSeq(path_list, i + 1, Len(path_list))
    IN  IF rel_list = <<>> THEN <<".">> ELSE join_names(rel_list)

\* utils.py:175-192: the keys build_anchor_map registers for one markdown file
anchor_keys(file_path, root_dir) ==
    LET filename == basename(file_path)
        encoded_name == replace_char(filename, " ", <<"%", "2", "0">>)
        encoded_name_no_ext ==
            IF endswith(encoded_name, DotMd) THEN drop_last(encoded_name, 3)
            ELSE encoded_name
    IN  {filename, drop_last(filename, 3), encoded_name, encoded_name_no_ext}
            \cup (IF root_dir # <<>> THEN {relpath(file_path, root_dir)} ELSE {})

\* utils.py:171-192 with the anchor derived from the root-relative path
anchor_map_add_by_rel_path(anchor_map, file_path, root_dir) ==
    IF ~endswith(lower(file_path), DotMd) THEN anchor_map
    ELSE LET anchor == filename_to_anchor(relpath(file_path, root_dir))
             keys == anchor_keys(file_path, root_dir)
         IN  [k \in DOMAIN anchor_map \cup keys |->
                 IF k \in keys THEN anchor ELSE anchor_map[k]]

\* utils.py:171-192: one iteration of build_anchor_map's loop
anchor_map_add(anchor_map, file_path, root_dir) ==
    IF ~endswith(lower(file_path), DotMd) THEN anchor_map
    ELSE LET anchor == filename_to_anchor(basename(file_path))
             keys == anchor_keys(file_path, root_dir)
         IN  [k \in DOMAIN anchor_map \cup keys |->
                 IF k \in keys THEN anchor ELSE anchor_map[k]]

EmptyMap == [k \in {} |-> <<>>]

RECURSIVE build_anchor_map_from(_, _, _, _)
build_anchor_map_from(file_paths, root_dir, i, anchor_map) ==
    IF i > Len(file_paths) THEN anchor_map
    ELSE build_anchor_map_from(file_paths, root_dir, i + 1,
                               anchor_map_add(anchor_map, file_paths[i], root_dir))

\* utils.py:158-194
build_anchor_map(file_paths, root_dir) ==
    build_anchor_map_from(file_paths, root_dir, 1, EmptyMap)

(***************************************************************************)
(* Calls of the anchor helpers on file names and on lists of book files.   *)
(***************************************************************************)
\* longest file name, in segments of NameSegs
MaxNameSegs == 3
\* longest list of book files given to build_anchor_map
MaxBookFiles == 2

NameSegs ==
    {<<"M", "y">>, <<" ">>, <<"%", "2", "0">>, <<"c", "h">>, <<".", "m", "d">>,
     <<".", "M", "D">>, <<"-">>}

RECURSIVE NamesOf(_)
NamesOf(n) ==
    IF n = 0 THEN {<<>>}
    ELSE LET shorter == NamesOf(n - 1)
         IN  shorter \cup {name \o seg : name \in shorter, seg \in NameSegs}

FileNames == NamesOf(MaxNameSegs)

\* the absolute root directory of a build
RootPath == <<"/", "r">>
BookDirs == {<<>>, <<"d", "1", "/">>, <<"d", "2", "/">>}
BookBaseNames ==
    {<<"a", ".", "m", "d">>, <<"a", " ", "b", ".", "m", "d">>,
     <<"a", "%", "2", "0", "b", ".", "m", "d">>, <<"A", ".", "M", "D">>,
     <<"_", ".", "m", "d">>, <<"p", ".", "p", "d", "f">>}
BookFiles == {RootPath \o <<"/">> \o dir \o name : dir \in BookDirs, name \in BookBaseNames}

RECURSIVE ListsOf(_, _)
\* the lists of at most n elements of set
ListsOf(set, n) ==
    IF n = 0 THEN {<<>>}
    ELSE LET shorter == ListsOf(set, n - 1)
         IN  shorter \cup {Append(list, x) : list \in shorter, x \in set}

AnchorCalls ==
    {[op |-> "filename_to_anchor", done |-> FALSE, filename |-> name, anchor |-> <<>>,
      again |-> FALSE, anchor_again |-> <<>>] : name \in FileNames}
AnchorMapCalls ==
    {[op |-> "build_anchor_map", done |-> FALSE, file_paths |-> list,
      root_dir |-> root, anchor_map |-> EmptyMap] :
        list \in ListsOf(BookFiles, MaxBookFiles), root \in {<<>>, RootPath}}

build_vars ==
    <<manifest, disk, pc, force, chapter_data, front_cover_files, back_cover_files,
      all_files_to_convert, max_workers, md_index, rendering, batch, ordered_pdfs,
      chapter_info, front_cover, back_cover, chapter_index, toc_lines, merger,
      outline, current_page, pdf_index, merge_chapter, merge_left, book, prev,
      order_file, output_dir_exists, engine_calls>>

\* a helper is called outside any build
InitCall(calls) ==
    /\ manifest = <<>>
    /\ order_file = "ok"
    /\ disk = EmptyDisk
    /\ output_dir_exists = FALSE
    /\ IdleBuild
    /\ call \in calls

FilenameToAnchor ==
    /\ call.op = "filename_to_anchor"
    /\ ~call.done
    /\ call' = [call EXCEPT !.done = TRUE, !.anchor = filename_to_anchor(call.filename)]
    /\ UNCHANGED build_vars

\* the anchor is given back to filename_to_anchor
FilenameToAnchorAgain ==
    /\ call.op = "filename_to_anchor"
    /\ call.done
    /\ ~call.again
    /\ call' = [call EXCEPT !.again = TRUE, !.anchor_again = filename_to_anchor(call.anchor)]
    /\ UNCHANGED build_vars

BuildAnchorMap ==
    /\ call.op = "build_anchor_map"
    /\ ~call.done
    /\ call' = [call EXCEPT !.done = TRUE,
                            !.anchor_map = build_anchor_map(call.file_paths, call.root_dir)]
    /\ UNCHANGED build_vars

InitAnchor == InitCall(AnchorCalls \cup AnchorMapCalls)
NextAnchor ==
    \/ FilenameToAnchor
    \/ FilenameToAnchorAgain
    \/ BuildAnchorMap
SpecAnchor == InitAnchor /\ [][NextAnchor]_vars

(***************************************************************************)
(* rewrite_markdown_links, utils.py:197-259.                               *)
(***************************************************************************)
RECURSIVE find(_, _, _)
\* the index of the first c in s at or after index from, 0 when there is none
find(s, c, from) ==
    IF from > Len(s) THEN 0
    ELSE IF s[from] = c THEN from
    ELSE find(s, c, from + 1)

\* s.split(c)[0]
before(s, c) == IF find(s, c, 1) = 0 THEN s ELSE SubSeq(s, 1, find(s, c, 1) - 1)

RECURSIVE scheme_rest(_)
\* [a-zA-Z0-9+.-]*: at the start of s
scheme_rest(s) ==
    /\ s # <<>>
    /\ \/ s[1] = ":"
       \/ (isalnum(s[1]) \/ s[1] \in {"+", ".", "-"}) /\ scheme_rest(Tail(s))

\* utils.py:218: re.match(r'^[a-zA-Z][a-zA-Z0-9+.-]*:', url)
has_scheme(url) == url # <<>> /\ isalpha(url[1]) /\ scheme_rest(Tail(url))

\* utils.py:211: where link_pattern matches at the start of s.  The text runs
\* to the first "]", which "(" must follow; the url runs to the first ")".
match_link(s) ==
    LET close == find(s, "]", 2)
        end == IF close = 0 THEN 0 ELSE find(s, ")", close + 2)
    IN  [found |-> /\ s[1] = "["
                   /\ close > 2
                   /\ Len(s) > close
                   /\ s[close + 1] = "("
                   /\ end > close + 2,
         close |-> close,
         end |-> end]

link(link_text, url) == <<"[">> \o link_text \o <<"]", "(">> \o url \o <<")">>

\* utils.py:238-251: the anchor of the first form of the target found in the
\* map; None (here the empty string, as falsy) when no form is found
lookup_anchor(path_part, anchor_map) ==
    LET filename == basename(path_part)
    IN  IF filename \in DOMAIN anchor_map THEN anchor_map[filename]
        ELSE IF unquote(filename) \in DOMAIN anchor_map THEN anchor_map[unquote(filename)]
        ELSE IF path_part \in DOMAIN anchor_map THEN anchor_map[path_part]
        ELSE IF unquote(path_part) \in DOMAIN anchor_map THEN anchor_map[unquote(path_part)]
        ELSE <<>>

\* utils.py:213-257 without the test for a URI scheme
replace_link_any_scheme(link_text, url, anchor_map) ==
    LET path_part == before(before(url, "#"), "?")
        anchor == lookup_anchor(path_part, anchor_map)
    IN  IF startswith(url, <<"#">>) THEN link(link_text, url)
        ELSE IF ~endswith(lower(path_part), DotMd) THEN link(link_text, url)
        ELSE IF anchor # <<>> THEN link(link_text, <<"#">> \o anchor)
        ELSE link(link_text, url)

\* utils.py:213-257
replace_link(link_text, url, anchor_map) ==
    LET path_part == before(before(url, "#"), "?")
        anchor == lookup_anchor(path_part, anchor_map)
    IN  IF has_scheme(url) THEN link(link_text, url)
        ELSE IF startswith(url, <<"#">>) THEN link(link_text, url)
        ELSE IF ~endswith(lower(path_part), DotMd) THEN link(link_text, url)
        ELSE IF anchor # <<>> THEN link(link_text, <<"#">> \o anchor)
        ELSE link(link_text, url)

RECURSIVE rewrite_markdown_links(_, _)
\* utils.py:197-259: link_pattern.sub(replace_link, md_content)
rewrite_markdown_links(md_content, anchor_map) ==
    IF md_content = <<>> THEN <<>>
    ELSE LET m == match_link(md_content)
         IN  IF m.found
             THEN replace_link(SubSeq(md_content, 2, m.close - 1),
                               SubSeq(md_content, m.close + 2, m.end - 1), anchor_map)
                      \o rewrite_markdown_links(drop_first(md_content, m.end), anchor_map)
             ELSE <<md_content[1]>> \o rewrite_markdown_links(Tail(md_content), anchor_map)

\* most links in a markdown content
MaxLinks == 1

LinkBookFiles ==
    {<<"/", "r", "/", "a", ".", "m", "d">>,
     <<"/", "r", "/", "d", "1", "/", "a", " ", "b", ".", "m", "d">>,
     <<"/", "r", "/", "_", ".", "m", "d">>,
     <<"/", "r", "/", "d", "1", "/", "A", ".", "M", "D">>}
LinkTargets ==
    {<<"a", ".", "m", "d">>,
     <<"%", "6", "1", ".", "m", "d">>,
     <<"d", "1", "/", "a", "%", "2", "0", "b", ".", "m", "d">>,
     <<"d", "1", "/", "a", " ", "b", ".", "m", "d">>,
     <<"h", "t", "t", "p", "s", ":", "/", "/", "x", "/", "a", ".", "m", "d">>,
     <<"m", "a", "i", "l", "t", "o", ":", "a", ".", "m", "d">>,
     <<"#", "a", ".", "m", "d">>,
     <<"a", ".", "m", "d", "#", "s">>,
     <<"a", ".", "m", "d", "?", "q">>,
     <<"a", ".", "p", "d", "f">>,
     <<"d", "1", "/">>,
     <<"z", "z", ".", "m", "d">>,
     <<"_", ".", "m", "d">>,
     <<"A", ".", "M", "D">>,
     <<"a", ".", "M", "D">>,
     <<".", "/", "a", ".", "m", "d">>}
\* a link and the text before it
LinkChoices ==
    {[pre |-> <<"s", "e", "e", " ">>, text |-> <<"t">>, url |-> url] : url \in LinkTargets}
        \cup {[pre |-> <<"[", "x", "]", " ", "!">>, text |-> <<"a", " ", "b">>, url |-> <<"a", ".", "m", "d">>]}
LinkPost == <<".">>

RECURSIVE content_of(_, _)
\* the markdown content made of the links from the i-th on
content_of(links, i) ==
    IF i > Len(links) THEN LinkPost
    ELSE links[i].pre \o link(links[i].text, links[i].url) \o content_of(links, i + 1)

LinkMapCalls ==
    {[op |-> "build_anchor_map", done |-> FALSE, file_paths |-> list,
      root_dir |-> RootPath, anchor_map |-> EmptyMap] :
        list \in ListsOf(LinkBookFiles, MaxBookFiles)}

\* convert.py:269-270: the content of a book file is rewritten with the map
RewriteLinks(links) ==
    /\ call.op = "build_anchor_map"
    /\ call.done
    /\ call' = [op |-> "rewrite_markdown_links", done |-> TRUE,
                file_paths |-> call.file_paths, root_dir |-> call.root_dir,
                anchor_map |-> call.anchor_map, links |-> links,
                md_content |-> content_of(links, 1),
                result |-> rewrite_markdown_links(content_of(links, 1), call.anchor_map)]
    /\ UNCHANGED build_vars

InitLinks == InitCall(LinkMapCalls)
NextLinks ==
    \/ BuildAnchorMap
    \/ \E links \in ListsOf(LinkChoices, MaxLinks) : RewriteLinks(links)
SpecLinks == InitLinks /\ [][NextLinks]_vars

(***************************************************************************)
(* resolve_file_path on references and trees of any shape,                 *)
(* combine.py:68-103.                                                      *)
(***************************************************************************)
\* os.path.isabs
isabs(path) == startswith(path, <<"/">>)
\* os.path.join(dir, path) for a relative path
join(dir, path) == dir \o <<"/">> \o path

\* combine.py:68-103 trying .pdf before .md
resolve_file_path_in_pdf_first(file_ref, root_dir, existing) ==
    LET abs_path == join(root_dir, file_ref)
        md_path == join(root_dir, file_ref \o DotMd)
        pdf_path == join(root_dir, file_ref \o DotPdf)
        no_extension == ~endswith(file_ref, DotMd) /\ ~endswith(file_ref, DotPdf)
    IN  IF isabs(file_ref) THEN file_ref
        ELSE IF abs_path \in existing THEN abs_path
        ELSE IF no_extension /\ pdf_path \in existing THEN pdf_path
        ELSE IF no_extension /\ md_path \in existing THEN md_path
        ELSE abs_path

\* combine.py:68-103; existing: the paths for which os.path.exists is true
resolve_file_path_in(file_ref, root_dir, existing) ==
    LET abs_path == join(root_dir, file_ref)
        md_path == join(root_dir, file_ref \o DotMd)
        pdf_path == join(root_dir, file_ref \o DotPdf)
        no_extension == ~endswith(file_ref, DotMd) /\ ~endswith(file_ref, DotPdf)
    IN  IF isabs(file_ref) THEN file_ref
        ELSE IF abs_path \in existing THEN abs_path
        ELSE IF no_extension /\ md_path \in existing THEN md_path
        ELSE IF no_extension /\ pdf_path \in existing THEN pdf_path
        ELSE abs_path

FileRefs ==
    {<<"a">>,
     <<"a", ".", "m", "d">>,
     <<"a", ".", "p", "d", "f">>,
     <<"a", ".", "M", "D">>,
     <<"d", "/", "a">>,
     <<"/", "x", "/", "a", ".", "m", "d">>,
     <<"/", "x", "/", "a">>}
TreePaths ==
    {<<"/", "r", "/", "a">>,
     <<"/", "r", "/", "a", ".", "m", "d">>,
     <<"/", "r", "/", "a", ".", "p", "d", "f">>,
     <<"/", "r", "/", "a", ".", "M", "D">>,
     <<"/", "r", "/", "a", ".", "M", "D", ".", "m", "d">>,
     <<"/", "r", "/", "a", ".", "m", "d", ".", "m", "d">>,
     <<"/", "r", "/", "d", "/", "a", ".", "p", "d", "f">>,
     <<"/", "x", "/", "a", ".", "m", "d">>}

ResolveCalls ==
    {[op |-> "resolve_file_path", done |-> FALSE, file_ref |-> ref, root_dir |-> RootPath,
      existing |-> existing, result |-> <<>>] :
        ref \in FileRefs, existing \in SUBSET TreePaths}

ResolveFilePath ==
    /\ call.op = "resolve_file_path"
    /\ ~call.done
    /\ call' = [call EXCEPT !.done = TRUE,
                            !.result = resolve_file_path_in(call.file_ref, call.root_dir,
                                                            call.existing)]
    /\ UNCHANGED build_vars

InitResolve == InitCall(ResolveCalls)
NextResolve == ResolveFilePath
SpecResolve == InitResolve /\ [][NextResolve]_vars

(***************************************************************************)
(* extract_title_from_markdown, convert.py:39-59, and the title the        *)
(* renderer uses, convert.py:272-275.                                      *)
(***************************************************************************)
\* what \s matches
Whitespace == {" ", "\t", "\n", "\r"}
\* None, as a title
NoTitle == <<"None">>

RECURSIVE strip_space(_)
\* str.strip()
strip_space(s) ==
    IF s = <<>> THEN <<>>
    ELSE IF s[1] \in Whitespace THEN strip_space(Tail(s))
    ELSE IF s[Len(s)] \in Whitespace THEN strip_space(drop_last(s, 1))
    ELSE s

\* ^ and $ under re.MULTILINE: i is the start of a line, i is the end of one
line_start(s, i) == i = 1 \/ (i > 1 /\ i <= Len(s) + 1 /\ s[i - 1] = "\n")
line_end(s, i) == i = Len(s) + 1 \/ (i <= Len(s) /\ s[i] = "\n")
all_in(s, from, to, set) == \A k \in from..to : s[k] \in set
none_is(s, from, to, c) == \A k \in from..to : s[k] # c

\* \s*$ matches from index from
spaces_to_line_end(s, from) ==
    \E k \in (from - 1)..Len(s) : all_in(s, from, k, Whitespace) /\ line_end(s, k + 1)

\* ^#\s+(.+?)\s*$ matches at i with n whitespace characters after the # and
\* the group ending at e
atx_match(s, i, n, e) ==
    /\ line_start(s, i)
    /\ i <= Len(s)
    /\ s[i] = "#"
    /\ n >= 1
    /\ all_in(s, i + 1, i + n, Whitespace)
    /\ e >= i + n + 1
    /\ e <= Len(s)
    /\ none_is(s, i + n + 1, e, "\n")
    /\ spaces_to_line_end(s, e + 1)
atx_matches_at(s, i) == \E n \in 1..Len(s), e \in 1..Len(s) : atx_match(s, i, n, e)

\* group(1) of the match at i: \s+ takes the most it can, (.+?) the least
atx_group(s, i) ==
    LET n == CHOOSE n \in 1..Len(s) :
                 /\ \E e \in 1..Len(s) : atx_match(s, i, n, e)
                 /\ \A m \in (n + 1)..Len(s) : ~\E e \in 1..Len(s) : atx_match(s, i, m, e)
        e == CHOOSE e \in 1..Len(s) :
                 /\ atx_match(s, i, n, e)
                 /\ \A f \in 1..(e - 1) : ~atx_match(s, i, n, f)
    IN  SubSeq(s, i + n + 1, e)

\* ^(.+?)\n=+\s*$ matches at i with the group ending at e
setext_match(s, i, e) ==
    /\ line_start(s, i)
    /\ e >= i
    /\ e + 2 <= Len(s)
    /\ none_is(s, i, e, "\n")
    /\ s[e + 1] = "\n"
    /\ \E k \in (e + 2)..Len(s) :
          all_in(s, e + 2, k, {"="}) /\ spaces_to_line_end(s, k + 1)
setext_matches_at(s, i) == \E e \in 1..Len(s) : setext_match(s, i, e)
setext_group(s, i) == SubSeq(s, i, CHOOSE e \in 1..Len(s) : setext_match(s, i, e))

\* re.search: the leftmost index at which a pattern matches
leftmost(indices) == CHOOSE i \in indices : \A j \in indices : i <= j

\* convert.py:39-59
extract_title_from_markdown(md_content) ==
    LET atx == {i \in 1..Len(md_content) : atx_matches_at(md_content, i)}
        setext == {i \in 1..Len(md_content) : setext_matches_at(md_content, i)}
    IN  IF atx # {} THEN strip_space(atx_group(md_content, leftmost(atx)))
        ELSE IF setext # {} THEN strip_space(setext_group(md_content, leftmost(setext)))
        ELSE NoTitle

\* convert.py:272-275: the title of the rendered document
document_title(md_content, headerFallback) ==
    LET title == extract_title_from_markdown(md_content)
    IN  IF title = NoTitle \/ title = <<>> THEN headerFallback ELSE title

\* most lines in a markdown content
MaxLines == 3

\* the lines of a content: what markdown takes the line for, and its text
AtxLines ==
    {[kind |-> "atx", text |-> <<"T">>, raw |-> <<"#", " ", "T">>],
     [kind |-> "atx", text |-> <<"A", " ", "B">>, raw |-> <<"#", " ", " ", "A", " ", "B", " ">>]}
OtherLines ==
    {[kind |-> "h2", text |-> <<"S">>, raw |-> <<"#", "#", " ", "S">>],
     [kind |-> "text", text |-> <<"P">>, raw |-> <<"P">>],
     [kind |-> "underline", text |-> <<"=", "=">>, raw |-> <<"=", "=">>],
     [kind |-> "blank", text |-> <<>>, raw |-> <<>>]}
LineChoices == AtxLines \cup OtherLines
HeaderFallback == <<"D", "o", "c">>

RECURSIVE join_lines(_, _)
\* the content made of the lines from the i-th on, each ended by a newline
join_lines(lines, i) ==
    IF i > Len(lines) THEN <<>>
    ELSE lines[i].raw \o <<"\n">> \o join_lines(lines, i + 1)

TitleCalls ==
    {[op |-> "extract_title_from_markdown", done |-> FALSE, lines |-> lines,
      md_content |-> join_lines(lines, 1), extracted |-> NoTitle, title |-> <<>>] :
        lines \in ListsOf(LineChoices, MaxLines)}

ExtractTitle ==
    /\ call.op = "extract_title_from_markdown"
    /\ ~call.done
    /\ call' = [call EXCEPT !.done = TRUE,
                            !.extracted = extract_title_from_markdown(call.md_content),
                            !.title = document_title(call.md_content, HeaderFallback)]
    /\ UNCHANGED build_vars

InitTitle == InitCall(TitleCalls)
NextTitle == ExtractTitle
SpecTitle == InitTitle /\ [][NextTitle]_vars

(***************************************************************************)
(* build_css_content, convert.py:95-139.                                   *)
(***************************************************************************)
PageTag == <<"{", "p", "a", "g", "e", "}">>
PagesTag == <<"{", "p", "a", "g", "e", "s", "}">>
CounterPage == <<"c", "o", "u", "n", "t", "e", "r", "(", "p", "a", "g", "e", ")">>
CounterPages == <<"c", "o", "u", "n", "t", "e", "r", "(", "p", "a", "g", "e", "s", ")">>

RECURSIVE index(_, _, _)
\* str.index counted from 0, from index from on; -1 when sub is not in s
index(s, sub, from) ==
    IF from + Len(sub) > Len(s) THEN -1
    ELSE IF SubSeq(s, from + 1, from + Len(sub)) = sub THEN from
    ELSE index(s, sub, from + 1)
\* sub in s
contains(s, sub) == index(s, sub, 0) >= 0

\* f"'{s}'"
quoted(s) == <<"'">> \o s \o <<"'">>

RECURSIVE join_space(_)
\* ' '.join(parts)
join_space(parts) ==
    IF parts = <<>> THEN <<>>
    ELSE IF Len(parts) = 1 THEN parts[1]
    ELSE parts[1] \o <<" ">> \o join_space(Tail(parts))

RECURSIVE css_parts(_)
\* convert.py:119-137: the parts list the while loop builds
css_parts(remaining) ==
    IF remaining = <<>> THEN <<>>
    ELSE IF contains(remaining, PageTag)
    THEN LET idx == index(remaining, PageTag, 0)
         IN  (IF idx > 0 THEN <<quoted(SubSeq(remaining, 1, idx))>> ELSE <<>>)
                 \o <<CounterPage>> \o css_parts(drop_first(remaining, idx + 6))
    ELSE IF contains(remaining, PagesTag)
    THEN LET idx == index(remaining, PagesTag, 0)
         IN  (IF idx > 0 THEN <<quoted(SubSeq(remaining, 1, idx))>> ELSE <<>>)
                 \o <<CounterPages>> \o css_parts(drop_first(remaining, idx + 7))
    ELSE <<quoted(remaining)>>

\* convert.py:95-139
build_css_content(text) ==
    IF text = <<>> THEN quoted(<<>>)
    ELSE IF ~contains(text, PageTag) /\ ~contains(text, PagesTag) THEN quoted(text)
    ELSE join_space(css_parts(text))

\* most pieces (placeholders and stretches of literal text) in a template
MaxPieces == 3

TemplatePieces == {PageTag, PagesTag, <<"p", ".">>, <<" ", "o", "f", " ">>}

RECURSIVE concat(_)
concat(pieces) == IF pieces = <<>> THEN <<>> ELSE pieces[1] \o concat(Tail(pieces))

CssCalls ==
    {[op |-> "build_css_content", done |-> FALSE, pieces |-> pieces,
      text |-> concat(pieces), result |-> <<>>] :
        pieces \in ListsOf(TemplatePieces, MaxPieces)}

BuildCssContent ==
    /\ call.op = "build_css_content"
    /\ ~call.done
    /\ call' = [call EXCEPT !.done = TRUE, !.result = build_css_content(call.text)]
    /\ UNCHANGED build_vars

InitCss == InitCall(CssCalls)
NextCss == BuildCssContent
SpecCss == InitCss /\ [][NextCss]_vars

(***************************************************************************)
(* get_output_pdf_path on the paths the build accepts, convert.py:171-193,  *)
(* with resolve_file_path before it and convert_file's tests around it.    *)
(***************************************************************************)
\* convert.py:171-193
output_pdf_path(md_path, root_dir, output_dir) ==
    LET rel_path == relpath(md_path, root_dir)
        rel_pdf_path == IF endswith(rel_path, DotMd)
                        THEN drop_last(rel_path, 3) \o DotPdf
                        ELSE rel_path \o DotPdf
    IN  join(output_dir, rel_pdf_path)

\* the references of a manifest: a directory part and a name
RefDirs ==
    {<<>>,
     <<"d", "/">>,
     <<"d", "/", "e", "/">>,
     <<".", "/">>,
     <<"d", "/", ".", ".", "/">>,
     <<".", ".", "/">>,
     <<"/", "x", "/">>,
     <<"/", "r", "/", "d", "/">>}
RefNames ==
    {<<"a", ".", "m", "d">>,
     <<"a">>,
     <<"A", ".", "M", "D">>,
     <<"a", " ", "b", ".", "m", "d">>,
     <<"g", "o", "n", "e", ".", "m", "d">>}
\* the markdown files there are: every name but gone.md, in every directory
PresentFiles ==
    {(IF isabs(dir) THEN dir ELSE join(RootPath, dir)) \o name :
        dir \in RefDirs, name \in RefNames \ {<<"a">>, <<"g", "o", "n", "e", ".", "m", "d">>}}
OutputDirs == {<<"/", "r", "/", "o", "u", "t">>, <<"/", "o">>}

OutputPathCalls ==
    {[op |-> "get_output_pdf_path", done |-> FALSE, file_ref |-> dir \o name,
      root_dir |-> RootPath, output_dir |-> out, file_path |-> <<>>,
      accepted |-> FALSE, pdf_path |-> <<>>] :
        dir \in RefDirs, name \in RefNames, out \in OutputDirs}

\* combine.py:189-191 and convert.py:520-524: a reference is resolved, and
\* the path of its PDF is computed when it is an existing markdown file
GetOutputPdfPath ==
    /\ call.op = "get_output_pdf_path"
    /\ ~call.done
    /\ LET file_path == resolve_file_path_in(call.file_ref, call.root_dir, PresentFiles)
           accepted == endswith(lower(file_path), DotMd) /\ file_path \in PresentFiles
       IN  call' = [call EXCEPT
                       !.done = TRUE,
                       !.file_path = file_path,
                       !.accepted = accepted,
                       !.pdf_path = IF accepted
                                    THEN output_pdf_path(file_path, call.root_dir,
                                                         call.output_dir)
                                    ELSE <<>>]
    /\ UNCHANGED build_vars

InitOutputPath == InitCall(OutputPathCalls)
NextOutputPath == GetOutputPdfPath
SpecOutputPath == InitOutputPath /\ [][NextOutputPath]_vars


(***************************************************************************)
(* find_files_in_directory and the folders of a chapter.                   *)
(***************************************************************************)
RECURSIVE str_less(_, _)
\* a < b for two str, by code point
str_less(a, b) ==
    IF b = <<>> THEN FALSE
    ELSE IF a = <<>> THEN TRUE
    ELSE IF a[1] = b[1] THEN str_less(Tail(a), Tail(b))
    ELSE IndexOf(Ascii, a[1]) < IndexOf(Ascii, b[1])

RECURSIVE insert_sorted(_, _)
insert_sorted(list, x) ==
    IF list = <<>> THEN <<x>>
    ELSE IF str_less(x, list[1]) THEN <<x>> \o list
    ELSE <<list[1]>> \o insert_sorted(Tail(list), x)

RECURSIVE sorted(_)
\* sorted(list) for a list of str
sorted(list) ==
    IF list = <<>> THEN <<>>
    ELSE insert_sorted(sorted(drop_last(list, 1)), list[Len(list)])

reversed(list) == [i \in DOMAIN list |-> list[Len(list) + 1 - i]]

RECURSIVE seq_of(_)
seq_of(set) ==
    IF set = {} THEN <<>>
    ELSE LET x == CHOOSE y \in set : TRUE IN <<x>> \o seq_of(set \ {x})

\* the order in which the file system lists the names of a directory is not
\* specified: ascending or descending here
scandir(names, descending) ==
    IF descending THEN reversed(sorted(seq_of(names))) ELSE sorted(seq_of(names))

\* os.path.dirname of a path without trailing separator
parent(path) == drop_last(path, Len(basename(path)) + 1)

RECURSIVE ancestors(_)
\* the directories above a path, the root of the file system left out
ancestors(path) ==
    IF parent(path) = <<>> THEN {} ELSE {parent(path)} \cup ancestors(parent(path))

\* a directory that exists without a file below it
EmptyDirs == {<<"/", "r", "/", "e">>}
\* os.path.isdir is true of the directories above a file and of the empty ones
dirs_of(files) == EmptyDirs \cup UNION {ancestors(f) : f \in files \cup EmptyDirs}

RECURSIVE rstrip(_, _)
\* str.rstrip(c)
rstrip(s, c) ==
    IF s # <<>> /\ s[Len(s)] = c THEN rstrip(drop_last(s, 1), c) ELSE s

\* fnmatch.fnmatch for a pattern that is literal or a star before a literal
fnmatch(name, pattern) ==
    IF pattern # <<>> /\ pattern[1] = "*" THEN endswith(name, Tail(pattern))
    ELSE name = pattern

\* utils.py:87-105; the two abspath calls put the same working directory in
\* front of the path and of the folder pattern
is_ignored(path, patterns) ==
    \E k \in DOMAIN patterns :
        LET pattern == patterns[k]
            folder == components_from(rstrip(pattern, "/"), <<>>)
            names == components_from(path, <<>>)
        IN  \/ /\ endswith(pattern, <<"/">>)
               /\ common_prefix(names, folder) = Len(folder)
            \/ fnmatch(path, pattern)
            \/ fnmatch(basename(path), pattern)

RECURSIVE walk(_, _, _, _, _)
RECURSIVE walk_dirs(_, _, _, _, _, _)
\* combine.py:123-134: the files appended while os.walk visits dirpath and
\* the directories below it that were left in dirnames
walk(dirpath, root_dir, files, ignore_patterns, descending) ==
    LET dirnames == scandir({basename(d) : d \in {x \in dirs_of(files) : parent(x) = dirpath}},
                            descending)
        filenames == scandir({basename(f) : f \in {x \in files : parent(x) = dirpath}},
                             descending)
        kept == SelectSeq(dirnames,
                    LAMBDA d : ~is_ignored(relpath(join(dirpath, d), root_dir),
                                           ignore_patterns))
        wanted == SelectSeq(sorted(filenames),
                    LAMBDA filename :
                        /\ endswith(filename, DotMd) \/ endswith(filename, DotPdf)
                        /\ ~is_ignored(relpath(join(dirpath, filename), root_dir),
                                       ignore_patterns))
    IN  [i \in DOMAIN wanted |-> join(dirpath, wanted[i])]
            \o walk_dirs(dirpath, kept, root_dir, files, ignore_patterns, descending)
walk_dirs(dirpath, dirnames, root_dir, files, ignore_patterns, descending) ==
    IF dirnames = <<>> THEN <<>>
    ELSE walk(join(dirpath, dirnames[1]), root_dir, files, ignore_patterns, descending)
            \o walk_dirs(dirpath, Tail(dirnames), root_dir, files, ignore_patterns,
                         descending)

\* combine.py:106-136 returning the list in the order of the walk
find_files_in_directory_unsorted(dir_path, root_dir, files, ignore_patterns, descending) ==
    IF dir_path \notin dirs_of(files) THEN <<>>
    ELSE walk(dir_path, root_dir, files, ignore_patterns, descending)

\* combine.py:106-136; files: the files of the tree, ignore_patterns: the
\* lines of .gitignore
find_files_in_directory(dir_path, root_dir, files, ignore_patterns, descending) ==
    IF dir_path \notin dirs_of(files) THEN <<>>
    ELSE sorted(walk(dir_path, root_dir, files, ignore_patterns, descending))

RECURSIVE folders_files(_, _, _, _, _, _)
\* combine.py:194-199
folders_files(folders, i, root_dir, files, ignore_patterns, descending) ==
    IF i > Len(folders) THEN <<>>
    ELSE LET folder_path == resolve_file_path_in(rstrip(folders[i], "/"), root_dir,
                                                 files \cup dirs_of(files))
         IN  find_files_in_directory(folder_path, root_dir, files, ignore_patterns,
                                     descending)
                \o folders_files(folders, i + 1, root_dir, files, ignore_patterns,
                                 descending)

\* combine.py:172-201 for a chapter with files and folders
collect_files_for_chapter_in(chapter, root_dir, files, ignore_patterns, descending) ==
    [i \in DOMAIN chapter.files |->
        resolve_file_path_in(chapter.files[i], root_dir, files \cup dirs_of(files))]
        \o folders_files(chapter.folders, 1, root_dir, files, ignore_patterns, descending)

MaxTreeFiles == 3
TreeFiles ==
    {<<"/", "r", "/", "a", ".", "m", "d">>,
     <<"/", "r", "/", "d", "/", "a", ".", "m", "d">>,
     <<"/", "r", "/", "d", "/", "b", ".", "p", "d", "f">>,
     <<"/", "r", "/", "d", "/", "c", ".", "t", "x", "t">>,
     <<"/", "r", "/", "d", "/", "A", ".", "M", "D">>,
     <<"/", "r", "/", "d", "/", "s", "/", "a", ".", "m", "d">>,
     <<"/", "r", "/", "d", "/", "i", "g", "/", "z", ".", "m", "d">>,
     <<"/", "r", "/", "d", "-", "x", "/", "b", ".", "m", "d">>}
Trees == {files \in SUBSET TreeFiles : Cardinality(files) <= MaxTreeFiles}
SearchedDirs ==
    {<<"/", "r">>,
     <<"/", "r", "/", "d">>,
     <<"/", "r", "/", "d", "/", "s">>,
     <<"/", "r", "/", "e">>,
     <<"/", "r", "/", "n", "o", "p", "e">>,
     <<"/", "r", "/", "d", "/", "a", ".", "m", "d">>}
IgnoreFiles ==
    {<<>>,
     <<<<"i", "g">>>>,
     <<<<"d", "/", "s", "/">>, <<"*", ".", "p", "d", "f">>>>,
     <<<<"d", "/", "a", ".", "m", "d">>, <<"b", ".", "m", "d">>>>}
FolderChapters ==
    {[files |-> <<>>, folders |-> <<<<"d", "/">>>>],
     [files |-> <<<<"d", "/", "b", ".", "p", "d", "f">>, <<"a">>>>, folders |-> <<<<"d", "-", "x">>, <<"d", "/", "s", "/">>>>],
     [files |-> <<<<"d", "/", "s", "/", "a">>>>, folders |-> <<<<"n", "o", "p", "e">>, <<"d">>>>]}

FindCalls ==
    {[op |-> "find_files_in_directory", done |-> FALSE, dir_path |-> dir,
      root_dir |-> RootPath, files |-> files, ignore_patterns |-> patterns,
      descending |-> descending, result |-> <<>>, other |-> <<>>] :
        dir \in SearchedDirs, files \in Trees, patterns \in IgnoreFiles,
        descending \in BOOLEAN}
CollectCalls ==
    {[op |-> "collect_files_for_chapter", done |-> FALSE, chapter |-> chapter,
      root_dir |-> RootPath, files |-> files, ignore_patterns |-> patterns,
      descending |-> descending, result |-> <<>>] :
        chapter \in FolderChapters, files \in Trees, patterns \in IgnoreFiles,
        descending \in BOOLEAN}

\* the call, and the same call on a file system that lists names the other
\* way round
FindFilesInDirectory ==
    /\ call.op = "find_files_in_directory"
    /\ ~call.done
    /\ call' = [call EXCEPT
                  !.done = TRUE,
                  !.result = find_files_in_directory(call.dir_path, call.root_dir, call.files,
                                                     call.ignore_patterns, call.descending),
                  !.other = find_files_in_directory(call.dir_path, call.root_dir, call.files,
                                                    call.ignore_patterns, ~call.descending)]
    /\ UNCHANGED build_vars

CollectFilesForChapter ==
    /\ call.op = "collect_files_for_chapter"
    /\ ~call.done
    /\ call' = [call EXCEPT
                  !.done = TRUE,
                  !.result = collect_files_for_chapter_in(call.chapter, call.root_dir,
                                 call.files, call.ignore_patterns, call.descending)]
    /\ UNCHANGED build_vars

InitFind == InitCall(FindCalls \cup CollectCalls)
NextFind ==
    \/ FindFilesInDirectory
    \/ CollectFilesForChapter
SpecFind == InitFind /\ [][NextFind]_vars


(***************************************************************************)
(* The anchor of a converted document.                                     *)
(***************************************************************************)
\* utils.py:262-274
inject_document_anchor(html_content, anchor_id) ==
    <<"<", "a", " ", "i", "d", "=", "\"">> \o anchor_id \o <<"\"", ">", "<", "/", "a", ">", "\n">> \o html_content

\* convert.py:267-269
rewritten_content(md_content, anchor_map) ==
    IF DOMAIN anchor_map # {} THEN rewrite_markdown_links(md_content, anchor_map)
    ELSE md_content

\* convert.py:302-304
anchored_html(html_content, md_path) ==
    inject_document_anchor(html_content, filename_to_anchor(basename(md_path)))

DocBookFiles ==
    {<<"/", "r", "/", "x", ".", "m", "d">>,
     <<"/", "r", "/", "x", ".", "m", "d", ".", "m", "d">>,
     <<"/", "r", "/", "d", "1", "/", "a", " ", "b", ".", "m", "d">>,
     <<"/", "r", "/", "d", "2", "/", "x", ".", "m", "d">>}
HtmlBodies ==
    {<<>>,
     <<"<", "p", ">", "x", "<", "/", "p", ">">>,
     <<"<", "a", " ", "i", "d", "=", "\"", "x", "\"", ">", "<", "/", "a", ">", "\n">>}
\* the ways a link names a file of the book
NamingForms == {"basename", "encoded", "rel_path"}
named(file_path, root_dir, form) ==
    CASE form = "basename" -> basename(file_path)
      [] form = "encoded" -> replace_char(basename(file_path), " ", <<"%", "2", "0">>)
      [] form = "rel_path" -> relpath(file_path, root_dir)

\* a file of the book is converted: md_path is file d of the list, its
\* markdown holds one link that names file d, html_content is what the
\* markdown engine made of it
DocumentCallsOf(list) ==
    {[op |-> "convert_markdown_to_pdf", done |-> FALSE, file_paths |-> list,
      root_dir |-> RootPath, d |-> d, form |-> form, html_content |-> html,
      md_content |-> link(<<"t">>, named(list[d], RootPath, form)),
      html_result |-> <<>>, md_result |-> <<>>] :
        d \in 1..Len(list), form \in NamingForms, html \in HtmlBodies}
DocumentCalls == UNION {DocumentCallsOf(list) : list \in ListsOf(DocBookFiles, MaxBookFiles)}

\* convert.py:267-269 and 302-304 with the anchor map of build_book
ConvertDocument ==
    /\ call.op = "convert_markdown_to_pdf"
    /\ ~call.done
    /\ call' = [call EXCEPT
                  !.done = TRUE,
                  !.md_result =
                      rewritten_content(call.md_content,
                                        build_anchor_map(call.file_paths, call.root_dir)),
                  !.html_result = anchored_html(call.html_content, call.file_paths[call.d])]
    /\ UNCHANGED build_vars

InitDocument == InitCall(DocumentCalls)
NextDocument == ConvertDocument
SpecDocument == InitDocument /\ [][NextDocument]_vars


(***************************************************************************)
(* process_placeholder.                                                    *)
(***************************************************************************)
\* None, where a str is expected
None == <<"<None>">>

RECURSIVE replace(_, _, _)
\* str.replace(old, new) for a non-empty old
replace(s, old, new) ==
    IF Len(s) < Len(old) THEN s
    ELSE IF startswith(s, old) THEN new \o replace(drop_first(s, Len(old)), old, new)
    ELSE <<s[1]>> \o replace(Tail(s), old, new)

\* convert.py:86-90 without the exception for the two CSS counters
replace_placeholder_of_any_key(result, key, value) ==
    IF value # None THEN replace(result, <<"{">> \o key \o <<"}">>, value)
    ELSE result

\* convert.py:86-90: the body of the loop over context.items()
replace_placeholder(result, key, value) ==
    IF key \notin {<<"p", "a", "g", "e">>, <<"p", "a", "g", "e", "s">>}
    THEN IF value # None THEN replace(result, <<"{">> \o key \o <<"}">>, value)
         ELSE result
    ELSE result

RECURSIVE replace_placeholders(_, _, _)
\* convert.py:84-90; context: the items of the dict, in insertion order
replace_placeholders(result, context, i) ==
    IF i > Len(context) THEN result
    ELSE replace_placeholders(
             replace_placeholder(result, context[i].key, context[i].value), context, i + 1)

\* convert.py:62-92
process_placeholder(text, context) ==
    IF text = None \/ text = <<>> THEN <<>>
    ELSE replace_placeholders(text, context, 1)

MaxParts == 3
TextParts ==
    {<<"{", "t", "i", "t", "l", "e", "}">>,
     <<"{", "d", "a", "t", "e", "}">>,
     <<"{", "p", "a", "g", "e", "}">>,
     <<"{", "p", "a", "g", "e", "s", "}">>,
     <<"{", "x", "}">>,
     <<"a", " ">>}
Contexts ==
    {<<>>,
     <<[key |-> <<"t", "i", "t", "l", "e">>, value |-> <<"T">>], [key |-> <<"f", "i", "l", "e", "n", "a", "m", "e">>, value |-> <<"f", ".", "m", "d">>], [key |-> <<"d", "a", "t", "e">>, value |-> None]>>,
     <<[key |-> <<"p", "a", "g", "e">>, value |-> <<"1">>], [key |-> <<"p", "a", "g", "e", "s">>, value |-> <<"1", "0">>], [key |-> <<"t", "i", "t", "l", "e">>, value |-> <<"T">>], [key |-> <<"d", "a", "t", "e">>, value |-> <<"D">>]>>,
     <<[key |-> <<"t", "i", "t", "l", "e">>, value |-> <<"{", "d", "a", "t", "e", "}">>], [key |-> <<"d", "a", "t", "e">>, value |-> <<"D">>]>>}

PlaceholderCalls ==
    {[op |-> "process_placeholder", done |-> FALSE, parts |-> parts,
      text |-> concat(parts), context |-> context, result |-> <<>>] :
        parts \in ListsOf(TextParts, MaxParts), context \in Contexts}
    \cup
    {[op |-> "process_placeholder", done |-> FALSE, parts |-> <<>>,
      text |-> None, context |-> context, result |-> <<>>] : context \in Contexts}

ProcessPlaceholder ==
    /\ call.op = "process_placeholder"
    /\ ~call.done
    /\ call' = [call EXCEPT !.done = TRUE,
                            !.result = process_placeholder(call.text, call.context)]
    /\ UNCHANGED build_vars

InitPlaceholder == InitCall(PlaceholderCalls)
NextPlaceholder == ProcessPlaceholder
SpecPlaceholder == InitPlaceholder /\ [][NextPlaceholder]_vars


(***************************************************************************)
(* convert_files_parallel and convert_all as functions of their lists.     *)
(***************************************************************************)
RECURSIVE convert_each(_, _, _, _, _, _)
\* convert.py:600-620: the loop over md_files
convert_each(files, i, forced, style, d, b) ==
    IF i > Len(files) THEN [batch |-> b, disk |-> d]
    ELSE LET r == convert_file(files[i], forced, style, d)
         IN  convert_each(files, i + 1, forced, style, r.disk, tally(b, r))

\* convert.py:579-622; style: the settings the caller handed over
convert_files_parallel(file_paths, forced, style, d) ==
    LET md_list == SelectSeq(file_paths, EndsWithMd)
        pdf_list == SelectSeq(file_paths, EndsWithPdf)
        b == [pdf_paths |-> SelectSeq(pdf_list, LAMBDA f : exists(f, d)),
              converted_count |-> 0,
              failed_count |-> Len(SelectSeq(pdf_list, LAMBDA f : ~exists(f, d))),
              ran |-> TRUE]
    IN  convert_each(md_list, 1, forced, style, d, b)

RECURSIVE convert_one_by_one(_, _, _, _, _)
\* convert.py:662-675: the loop of convert_all without the batch
convert_one_by_one(files, i, forced, d, counts) ==
    IF i > Len(files) THEN counts
    ELSE LET r == convert_file(files[i], forced, "default", d)
         IN  convert_one_by_one(files, i + 1, forced, r.disk,
                 IF r.error # "" THEN [counts EXCEPT !.failed = @ + 1]
                 ELSE IF r.was_converted THEN [counts EXCEPT !.converted = @ + 1]
                 ELSE [counts EXCEPT !.cached = @ + 1])

\* convert.py:626-683; md_files: what find_markdown_files returned
convert_all(md_list, forced, parallel, d) ==
    IF parallel
    THEN LET b == convert_files_parallel(md_list, forced, "default", d).batch
         IN  [total |-> Len(md_list), converted |-> b.converted_count,
              cached |-> Len(b.pdf_paths) - b.converted_count, failed |-> b.failed_count]
    ELSE LET counts == convert_one_by_one(md_list, 1, forced, d,
                                          [converted |-> 0, cached |-> 0, failed |-> 0])
         IN  [total |-> Len(md_list), converted |-> counts.converted,
              cached |-> counts.cached, failed |-> counts.failed]

MaxBatchFiles == 3
BatchFiles ==
    {Path(RootDir, "a", "md"), Path(RootDir, "b", "md"), Path(RootDir, "bad", "md"),
     Path(RootDir, "gone", "md"), Path(RootDir, "p", "pdf"), Path(RootDir, "gonepdf", "pdf"),
     Path(RootDir, "x", "txt")}
RECURSIVE PathListsOf(_, _)
PathListsOf(set, n) ==
    IF n = 0 THEN {<<>>}
    ELSE LET shorter == PathListsOf(set, n - 1)
         IN  shorter \cup {Append(list, x) : list \in shorter, x \in set}

BatchCalls ==
    {[op |-> "convert_files_parallel", done |-> FALSE, file_paths |-> list, force |-> f,
      style |-> "manifest", pdf_paths |-> <<>>, converted_count |-> 0, failed_count |-> 0] :
        list \in PathListsOf(BatchFiles, MaxBatchFiles), f \in BOOLEAN}
ConvertAllCalls ==
    {[op |-> "convert_all", done |-> FALSE, md_files |-> list, force |-> f,
      parallel |-> p, total |-> 0, converted |-> 0, cached |-> 0, failed |-> 0] :
        list \in PathListsOf({md \in BatchFiles : md \in SourceTree /\ EndsWithMd(md)},
                             MaxBatchFiles),
        f \in BOOLEAN, p \in BOOLEAN}

\* the call, over the output directory earlier builds have left
ConvertFilesParallel ==
    /\ call.op = "convert_files_parallel"
    /\ ~call.done
    /\ LET b == convert_files_parallel(call.file_paths, call.force, call.style, InitialDisk).batch
       IN  call' = [call EXCEPT !.done = TRUE, !.pdf_paths = b.pdf_paths,
                                !.converted_count = b.converted_count,
                                !.failed_count = b.failed_count]
    /\ UNCHANGED build_vars

ConvertAll ==
    /\ call.op = "convert_all"
    /\ ~call.done
    /\ LET r == convert_all(call.md_files, call.force, call.parallel, InitialDisk)
       IN  call' = [call EXCEPT !.done = TRUE, !.total = r.total, !.converted = r.converted,
                                !.cached = r.cached, !.failed = r.failed]
    /\ UNCHANGED build_vars

InitBatch == InitCall(BatchCalls \cup ConvertAllCalls)
NextBatch ==
    \/ ConvertFilesParallel
    \/ ConvertAll
SpecBatch == InitBatch /\ [][NextBatch]_vars


(***************************************************************************)
(* A build, an edit of the manifest's settings and book files, and the     *)
(* build that follows: the conversions of the two builds.                  *)
(***************************************************************************)
\* combine.py:575-585 and 612-619: the batch over the markdown files, then the
\* second pass that asks for the PDF of every file
build_conversions(files, forced, style, d) ==
    LET batched == convert_files_parallel(files, forced, style, d)
    IN  chapter_pdfs_of(files, 1, forced, batched.disk, <<>>)

MaxRerunFiles == 2
RerunFiles ==
    {Path(RootDir, "a", "md"), Path(RootDir, "b", "md"), Path(RootDir, "c", "md"),
     Path(RootDir, "bad", "md")}
Settings == {"manifest", "default"}

\* the files of the manifest after the edit: one dropped, one added, or neither
edited_files(files, dropped, added) ==
    LET kept == IF dropped /\ files # <<>> THEN Tail(files) ELSE files
    IN  IF added = NoPath THEN kept ELSE Append(kept, added)

RerunCalls ==
    {[op |-> "rerun", phase |-> "first", files |-> list, force |-> f1, style |-> s1,
      dropped |-> dr, added |-> ad, next_force |-> f2, next_style |-> s2,
      d |-> InitialDisk, before |-> InitialDisk, had |-> {}, index |-> 1,
      results |-> <<>>, pdfs |-> <<>>] :
        list \in PathListsOf(RerunFiles, MaxRerunFiles), f1 \in BOOLEAN, s1 \in Settings,
        dr \in BOOLEAN, ad \in RerunFiles \cup {NoPath}, f2 \in BOOLEAN, s2 \in Settings}

\* the first build; had: the markdown files it has a PDF for
FirstBuild ==
    /\ call.op = "rerun"
    /\ call.phase = "first"
    /\ LET r == build_conversions(call.files, call.force, call.style, call.d)
       IN  call' = [call EXCEPT
                       !.phase = "built",
                       !.d = r.disk,
                       !.before = r.disk,
                       !.pdfs = r.pdfs,
                       !.had = {call.files[i] : i \in
                                   {k \in 1..Len(call.files) :
                                       \E j \in 1..Len(r.pdfs) :
                                           r.pdfs[j] = get_output_pdf_path(call.files[k])}}]
    /\ UNCHANGED build_vars

\* page settings, style settings, title or book files of the manifest are
\* edited; no source file and no PDF is touched
EditManifest ==
    /\ call.op = "rerun"
    /\ call.phase = "built"
    /\ call' = [call EXCEPT
                   !.phase = "batch",
                   !.files = edited_files(call.files, call.dropped, call.added),
                   !.style = call.next_style,
                   !.force = call.next_force,
                   !.pdfs = <<>>]
    /\ UNCHANGED build_vars

\* convert.py:600-620, one file of the batch of the second build
RerunConvertFile ==
    /\ call.op = "rerun"
    /\ call.phase = "batch"
    /\ call.index <= Len(call.files)
    /\ LET r == convert_file(call.files[call.index], call.force, call.style, call.d)
       IN  call' = [call EXCEPT
                       !.index = @ + 1,
                       !.d = r.disk,
                       !.results = Append(@, [pdf_path |-> r.pdf_path,
                                              was_converted |-> r.was_converted,
                                              error |-> r.error])]
    /\ UNCHANGED build_vars

\* combine.py:612-619, the second pass of the second build
RerunCollect ==
    /\ call.op = "rerun"
    /\ call.phase = "batch"
    /\ call.index > Len(call.files)
    /\ LET r == chapter_pdfs_of(call.files, 1, call.force, call.d, <<>>)
       IN  call' = [call EXCEPT !.phase = "done", !.d = r.disk, !.pdfs = r.pdfs]
    /\ UNCHANGED build_vars

InitRerun == InitCall(RerunCalls)
NextRerun ==
    \/ FirstBuild
    \/ EditManifest
    \/ RerunConvertFile
    \/ RerunCollect
SpecRerun == InitRerun /\ [][NextRerun]_vars


(***************************************************************************)
(* The paths build_book writes in the output directory.                    *)
(***************************************************************************)
\* os.path.splitext(name)[0] of a file name without directories
splitext_root(name) ==
    LET dots == {i \in 1..Len(name) : name[i] = "."}
        last == IF dots = {} THEN 0 ELSE CHOOSE i \in dots : \A j \in dots : j <= i
    IN  IF last > 0 /\ \E k \in 1..(last - 1) : name[k] # "."
        THEN SubSeq(name, 1, last - 1)
        ELSE name

\* combine.py:441-446 and 505-507, for the PDF format
output_file_of(output_dir, output_filename) ==
    join(output_dir, splitext_root(output_filename) \o DotPdf)

\* combine.py:646-648
toc_pdf_of(output_dir, toc_filename) == join(output_dir, toc_filename)

MaxArtifactSources == 2
\* markdown sources under the root directory
ArtifactSources ==
    {<<"a", ".", "m", "d">>,
     <<"_", "t", "o", "c", ".", "m", "d">>,
     <<"b", "o", "o", "k", ".", "m", "d">>,
     <<"d", "/", "_", "t", "o", "c", ".", "m", "d">>,
     <<"d", "/", "a", ".", "m", "d">>}
OutputFilenames ==
    {<<"b", "o", "o", "k", ".", "p", "d", "f">>,
     <<"m", "y", ".", "p", "d", "f">>,
     <<"a", ".", "p", "d", "f">>,
     <<"_", "t", "o", "c", ".", "p", "d", "f">>}
TocFilenames ==
    {<<"_", "t", "o", "c", ".", "p", "d", "f">>,
     <<"t", "o", "c", ".", "p", "d", "f">>,
     <<"b", "o", "o", "k", ".", "p", "d", "f">>}
ArtifactCalls ==
    {[op |-> "artifacts", done |-> FALSE, sources |-> list, output_filename |-> out,
      toc_filename |-> toc, output_file |-> <<>>, toc_pdf |-> <<>>, pdf_paths |-> <<>>] :
        list \in PathListsOf(ArtifactSources, MaxArtifactSources),
        out \in OutputFilenames, toc \in TocFilenames}

\* the paths one build writes: the PDF of every markdown source, the TOC, the book
ArtifactPaths ==
    /\ call.op = "artifacts"
    /\ ~call.done
    /\ LET output_dir == join(RootPath, <<"o", "u", "t">>)
       IN  call' = [call EXCEPT
                       !.done = TRUE,
                       !.output_file = output_file_of(output_dir, call.output_filename),
                       !.toc_pdf = toc_pdf_of(output_dir, call.toc_filename),
                       !.pdf_paths =
                           [i \in 1..Len(call.sources) |->
                               output_pdf_path(join(RootPath, call.sources[i]),
                                               RootPath, output_dir)]]
    /\ UNCHANGED build_vars

InitArtifacts == InitCall(ArtifactCalls)
NextArtifacts == ArtifactPaths
SpecArtifacts == InitArtifacts /\ [][NextArtifacts]_vars

(***************************************************************************)
(* Properties.                                                             *)
(***************************************************************************)
ExistingMdSources == {p \in SourceTree : EndsWithMd(p)}

RECURSIVE FilesBefore(_, _)
\* the number of content PDFs of the chapters before chapter i of info
FilesBefore(info, i) ==
    IF i <= 1 THEN 0 ELSE info[i - 1].files + FilesBefore(info, i - 1)

RECURSIVE PagesOfFirst(_, _, _)
\* the pages of the first n PDFs of a list, as the page-count probe reports them
PagesOfFirst(pdfs, n, d) ==
    IF n = 0 THEN 0 ELSE safe_get_page_count(pdfs[n], d) + PagesOfFirst(pdfs, n - 1, d)

Planned == pc \in {"toc", "merge_front", "merge_toc", "merge_chapters", "merge_write", "done"}

\* C1: is_conversion_needed is true exactly when force is set, or no PDF exists,
\* or the markdown source is strictly newer than the PDF; with equal
\* modification times, an existing PDF and force off it is false.
C1_ConversionNeededExactly ==
    \A md \in ExistingMdSources : \A f \in BOOLEAN :
        LET pdf == get_output_pdf_path(md)
        IN  is_conversion_needed(md, pdf, f, disk)
                <=> (f \/ ~disk[pdf].exists \/ MdMtime[md.stem] > disk[pdf].mtime)

\* a cached file was settled in the batch with force off: its PDF exists and is
\* exactly as old as its source
C1_Witness ==
    /\ pc = "convert"
    /\ ~force
    /\ md_index > 1
    /\ LET md == md_files[md_index - 1]
           pdf == get_output_pdf_path(md)
       IN  /\ md \in ExistingMdSources
           /\ disk[pdf].exists
           /\ disk[pdf].mtime = MdMtime[md.stem]
           /\ rendering = {}
           /\ batch.converted_count = 0
           /\ Len(batch.pdf_paths) = md_index - 1

\* C2: a build that follows a build of the same manifest and sources, both with
\* force off, reports the same chapter pages, converts nothing, and serves
\* from the cache every markdown file the first build got a PDF for.
C2_SecondBuildAllCached ==
    (pc = "done" /\ prev.valid /\ ~prev.force /\ ~force)
        => /\ Outcome.pages = prev.pages
           /\ Outcome.converted = 0
           /\ Outcome.cached = prev.converted + prev.cached
           /\ Outcome.failed = prev.failed

\* the first build converted a file, the second one found all of them cached
C2_Witness ==
    /\ pc = "done"
    /\ prev.valid /\ ~prev.force /\ ~force
    /\ prev.converted > 0
    /\ Outcome.cached > prev.cached
    /\ Len(prev.pages) >= 2

\* C3: a kept chapter starts at 1 + the pages of the content PDFs of the kept
\* chapters before it + frontOffset, frontOffset being the pages of the front
\* cover (0 without one) + 1.
C3_ChapterStartPage ==
    Planned =>
        \A i \in 1..Len(chapter_info) :
            chapter_info[i].page =
                1 + PagesOfFirst(ordered_pdfs, FilesBefore(chapter_info, i), disk)
                  + (IF front_cover # NoPath THEN safe_get_page_count(front_cover, disk) ELSE 0)
                  + 1

\* two chapters behind a front cover: the second starts after N1 pages
C3_Witness ==
    /\ pc = "toc"
    /\ Len(chapter_info) >= 2
    /\ front_cover # NoPath
    /\ chapter_info[1].files >= 2
    /\ chapter_info[2].page
         = 1 + PagesOfFirst(ordered_pdfs, chapter_info[1].files, disk)
             + safe_get_page_count(front_cover, disk) + 1
    /\ chapter_info[2].page > chapter_info[1].page

RECURSIVE PagesAppended(_, _)
\* the pages the first n append calls put into the merged document
PagesAppended(appended, n) ==
    IF n = 0 THEN 0 ELSE appended[n].pages + PagesAppended(appended, n - 1)

\* the append calls made before the first content PDF
FrontMatter(appended) ==
    Cardinality({k \in DOMAIN appended : appended[k].what \in {"front", "toc"}})

\* the 1-based page of the merged document on which chapter i begins
FinalStartPage(appended, info, i) ==
    PagesAppended(appended, FrontMatter(appended) + FilesBefore(info, i)) + 1

\* C4: the page reported for a chapter (and printed in the TOC) is the page of
\* the merged document on which the chapter's first content PDF begins.
C4_ReportedPageIsFinalPage ==
    book.written =>
        \A i \in 1..Len(chapter_info) :
            /\ toc_lines[i].page = chapter_info[i].page
            /\ chapter_info[i].page = FinalStartPage(book.merger, chapter_info, i)

\* C5: one outline entry per chapter, in chapter order, at the 0-based page
\* that equals the pages appended before the chapter's first PDF.
C5_OutlineAtChapterStart ==
    /\ Len(outline) = merge_chapter
    /\ Len(outline) <= Len(chapter_info)
    /\ book.written => Len(book.outline) = Len(chapter_info)
    /\ \A i \in 1..Len(outline) :
          /\ outline[i].title = chapter_info[i].section
          /\ outline[i].page =
                PagesAppended(merger, FrontMatter(merger) + FilesBefore(chapter_info, i))

\* the written book has two bookmarks, the second behind the first
C5_Witness ==
    /\ book.written
    /\ Len(book.outline) >= 2
    /\ book.outline[2].page > book.outline[1].page
    /\ book.outline[1].page >= 2

ContentOf(appended) == SelectSeq(appended, LAMBDA a : a.what = "content")

\* C6: the appends are the front cover (if given and a file), the TOC, the
\* content PDFs in list order, the back cover (if given), in that order; the
\* output is written after all of them.
C6_AppendOrder ==
    LET content == ContentOf(merger)
        lead == FrontMatter(merger)
    IN  /\ \A k \in DOMAIN merger :
              /\ merger[k].what = "front" =>
                    k = 1 /\ merger[k].path = front_cover /\ front_cover # NoPath
              /\ merger[k].what = "toc" =>
                    /\ merger[k].path = toc_pdf
                    /\ k = IF front_cover # NoPath THEN 2 ELSE 1
              /\ merger[k].what = "content" =>
                    /\ k > lead
                    /\ lead = IF front_cover # NoPath THEN 2 ELSE 1
                    /\ merger[k].path = ordered_pdfs[k - lead]
              /\ merger[k].what = "back" =>
                    /\ k = Len(merger)
                    /\ k = lead + Len(ordered_pdfs) + 1
                    /\ merger[k].path = back_cover /\ back_cover # NoPath
        /\ Len(content) <= Len(ordered_pdfs)
        /\ pc \in {"merge_write", "done"} =>
              /\ Len(content) = Len(ordered_pdfs)
              /\ lead = IF front_cover # NoPath THEN 2 ELSE 1
              /\ Len(merger) = lead + Len(ordered_pdfs) + IF back_cover # NoPath THEN 1 ELSE 0
        /\ book.written <=> pc = "done"
        /\ book.written => book.merger = merger

\* a written book with both covers and content between them
C6_Witness ==
    /\ book.written
    /\ Len(book.merger) >= 5
    /\ book.merger[1].what = "front"
    /\ book.merger[Len(book.merger)].what = "back"

\* the markdown files convert_file can turn into a PDF
Convertible(md) == md \in ExistingMdSources /\ md \notin UnrenderableSources

\* the files of the tree convert_file must report as failed
FailingFiles ==
    {Path(RootDir, "gone", "md"), Path(RootDir, "bad", "md"), Path(RootDir, "x", "txt"),
     Path(RootDir, "gonepdf", "pdf")}

BatchDone == batch.ran /\ (pc # "convert" \/ (md_index > Len(md_files) /\ rendering = {}))

\* C7, in every state: convert_file answers (None, not converted, message) for a
\* missing source, an unsupported type and a renderer exception, and changes
\* no file; when the batch has returned, every file of the list was tallied
\* and the PDFs returned are those of the other files, in list order.
C7_FailuresReported ==
    /\ \A file \in FailingFiles : \A f \in BOOLEAN :
          LET r == convert_file(file, f, "manifest", disk)
          IN  r.pdf_path = NoPath /\ ~r.was_converted /\ r.error # "" /\ r.disk = disk
    /\ batch.ran =>
          /\ Len(batch.pdf_paths) + batch.failed_count + Cardinality(rendering)
                = md_index - 1
          /\ batch.converted_count <= Len(batch.pdf_paths)
    /\ BatchDone =>
          /\ Len(batch.pdf_paths) + batch.failed_count = Len(md_files)
          /\ batch.pdf_paths =
                [i \in 1..Len(SelectSeq(md_files, Convertible)) |->
                    get_output_pdf_path(SelectSeq(md_files, Convertible)[i])]

\* C7, in every step of the batch: a failed file adds one to the failure tally
\* and leaves the files, the returned PDFs and the converted count as they
\* were, and the batch goes on with the next file.
C7_FailureChangesNothingElse ==
    (pc = "convert" /\ batch.ran /\ batch'.failed_count # batch.failed_count)
        => /\ batch'.failed_count = batch.failed_count + 1
           /\ batch'.pdf_paths = batch.pdf_paths
           /\ batch'.converted_count = batch.converted_count
           /\ disk' = disk
           /\ pc' = "convert"
           /\ md_index' >= md_index

\* C7: a per-file failure never aborts the batch.
C7_FailureNeverAborts == []C7_FailuresReported /\ [][C7_FailureChangesNothingElse]_vars

\* the batch returned after a failure at the head of the list and went on to
\* convert a later file and to serve another from the cache
C7_Witness ==
    /\ pc = "front"
    /\ batch.ran
    /\ batch.failed_count >= 1
    /\ md_files[1] \in FailingFiles
    /\ batch.converted_count >= 1
    /\ Len(batch.pdf_paths) > batch.converted_count

UsableFile(file) ==
    \/ EndsWithPdf(file) /\ file \in SourceTree
    \/ EndsWithMd(file) /\ Convertible(file)

PdfOf(file) == IF EndsWithMd(file) THEN get_output_pdf_path(file) ELSE file

UsablePdfs(files) ==
    LET usable == SelectSeq(files, UsableFile)
    IN  [i \in 1..Len(usable) |-> PdfOf(usable[i])]

RECURSIVE Flatten(_, _)
\* the usable PDFs of chapters i.. of a list of (section, files)
Flatten(chapters, i) ==
    IF i > Len(chapters) THEN <<>>
    ELSE UsablePdfs(chapters[i].files) \o Flatten(chapters, i + 1)

\* the chapters of the manifest without those that have no usable file
KeptChapters == SelectSeq(chapter_data, LAMBDA c : UsablePdfs(c.files) # <<>>)

\* what the plan is for a manifest that holds the kept chapters alone
PlanOfKept ==
    [k \in 1..Len(KeptChapters) |->
        [section |-> KeptChapters[k].section,
         page |-> 1 + sum_page_counts(Flatten(SubSeq(KeptChapters, 1, k - 1), 1), 1, disk)
                    + front_matter_offset(front_cover, disk),
         files |-> Len(UsablePdfs(KeptChapters[k].files))]]

\* C9: a chapter without a usable PDF has no chapter_info entry, no TOC line,
\* no bookmark and no pages; every entry counts at least one file; the
\* entries are those of the manifest without the dropped chapters.
C9_EmptyChaptersDropped ==
    /\ \A i \in 1..Len(chapter_info) : chapter_info[i].files >= 1
    /\ Planned =>
          /\ chapter_info = PlanOfKept
          /\ ordered_pdfs = Flatten(KeptChapters, 1)
    /\ pc \in {"merge_front", "merge_toc", "merge_chapters", "merge_write", "done"} =>
          /\ Len(toc_lines) = Len(KeptChapters)
          /\ \A i \in 1..Len(toc_lines) : toc_lines[i].section = KeptChapters[i].section
    /\ book.written =>
          /\ Len(book.outline) = Len(KeptChapters)
          /\ \A i \in 1..Len(book.outline) :
                book.outline[i].title = KeptChapters[i].section
          /\ Len(ContentOf(book.merger)) = Len(Flatten(KeptChapters, 1))

\* a chapter was dropped between two kept ones
C9_Witness ==
    /\ book.written
    /\ Len(chapter_data) = 3
    /\ UsablePdfs(chapter_data[1].files) # <<>>
    /\ UsablePdfs(chapter_data[2].files) = <<>>
    /\ UsablePdfs(chapter_data[3].files) # <<>>
    /\ Len(chapter_info) = 2
    /\ chapter_info[2].page > chapter_info[1].page

Built == pc \notin {"idle"}

NonCoverChapters ==
    LET chosen == SelectSeq(manifest, LAMBDA c : c.section \notin {"Front Cover", "Back Cover"})
    IN  [i \in 1..Len(chosen) |->
            [section |-> chosen[i].section, files |-> collect_files_for_chapter(chosen[i])]]

\* C10: no chapter_info entry is named "Front Cover" or "Back Cover", the
\* content list holds the PDFs of the other chapters only, and the merged
\* document gets at most one front cover, first, and one back cover, last.
C10_CoversExcluded ==
    /\ \A i \in 1..Len(chapter_info) :
          chapter_info[i].section \notin {"Front Cover", "Back Cover"}
    /\ \A i \in 1..Len(toc_lines) : toc_lines[i].section \notin {"Front Cover", "Back Cover"}
    /\ \A i \in 1..Len(outline) : outline[i].title \notin {"Front Cover", "Back Cover"}
    /\ Built => chapter_data = NonCoverChapters
    /\ Planned => ordered_pdfs = Flatten(NonCoverChapters, 1)
    /\ Cardinality({k \in DOMAIN merger : merger[k].what = "front"}) <= 1
    /\ Cardinality({k \in DOMAIN merger : merger[k].what = "back"}) <= 1
    /\ \A k \in DOMAIN merger :
          /\ merger[k].what = "front" => k = 1
          /\ merger[k].what = "back" => k = Len(merger)

\* a manifest with both covers around a chapter, built into a book
C10_Witness ==
    /\ book.written
    /\ \E i, j \in DOMAIN manifest :
          manifest[i].section = "Front Cover" /\ manifest[j].section = "Back Cover"
    /\ front_cover # NoPath /\ back_cover # NoPath
    /\ Len(chapter_info) >= 1
    /\ book.merger[1].what = "front"
    /\ book.merger[Len(book.merger)].what = "back"


(***************************************************************************)
(* Anchors.                                                                *)
(***************************************************************************)
upper_char(c) == IF c \in Range(LowerCase) THEN UpperCase[IndexOf(LowerCase, c)] ELSE c
upper(s) == [i \in DOMAIN s |-> upper_char(s[i])]
MdFilesOf(file_paths) ==
    {i \in DOMAIN file_paths : endswith(lower(file_paths[i]), DotMd)}
dirname(path) == drop_last(path, Len(basename(path)))

AnchorChars == Range(LowerCase) \cup Range(Digits) \cup {"-"}
WellFormedAnchor(anchor) ==
    /\ Range(anchor) \subseteq AnchorChars
    /\ anchor # <<>> => (anchor[1] # "-" /\ anchor[Len(anchor)] # "-")
    /\ \A i \in 1..(Len(anchor) - 1) : ~(anchor[i] = "-" /\ anchor[i + 1] = "-")

\* C14: the anchor of a file name does not change when the name's letters
\* change case, when its spaces are written %20 or when .md is appended to a
\* name without it; the anchor is made of [a-z0-9-] with no hyphen first or
\* last and no two hyphens in a row; "My Chapter.md" and "my%20chapter.md"
\* both give "my-chapter".
C14_AnchorInvariances ==
    /\ (call.op = "filename_to_anchor" /\ call.done) =>
          LET x == call.filename
          IN  /\ filename_to_anchor(lower(x)) = call.anchor
              /\ filename_to_anchor(upper(x)) = call.anchor
              /\ filename_to_anchor(replace_char(x, " ", <<"%", "2", "0">>)) = call.anchor
              /\ ~endswith(lower(x), DotMd) =>
                    /\ filename_to_anchor(x \o DotMd) = call.anchor
                    /\ filename_to_anchor(x \o upper(DotMd)) = call.anchor
              /\ WellFormedAnchor(call.anchor)
    /\ filename_to_anchor(<<"M", "y", " ", "C", "h", "a", "p", "t", "e", "r", ".", "m", "d">>)
          = <<"m", "y", "-", "c", "h", "a", "p", "t", "e", "r">>
    /\ filename_to_anchor(<<"m", "y", "%", "2", "0", "c", "h", "a", "p", "t", "e", "r", ".", "m", "d">>)
          = <<"m", "y", "-", "c", "h", "a", "p", "t", "e", "r">>

\* "My%20.MD" gives "my"
C14_Witness ==
    /\ call.op = "filename_to_anchor"
    /\ call.done
    /\ call.filename = <<"M", "y", "%", "2", "0", ".", "M", "D">>
    /\ call.anchor = <<"m", "y">>

(***************************************************************************)
(* Link rewriting.  The contents are made of text without parentheses and  *)
(* of links, so the targets of a content are what stands between "(" and   *)
(* ")", in order.                                                          *)
(***************************************************************************)
RECURSIVE targets_of(_)
targets_of(s) ==
    LET open == find(s, "(", 1)
        close == find(s, ")", open + 1)
    IN  IF open = 0 \/ close = 0 THEN <<>>
        ELSE <<SubSeq(s, open + 1, close - 1)>> \o targets_of(drop_first(s, close))

RECURSIVE outside_targets(_)
outside_targets(s) ==
    LET open == find(s, "(", 1)
        close == find(s, ")", open + 1)
    IN  IF open = 0 \/ close = 0 THEN s
        ELSE SubSeq(s, 1, open) \o outside_targets(drop_first(s, close - 1))

Rewritten == call.op = "rewrite_markdown_links" /\ call.done
path_of(url) == before(before(url, "#"), "?")
TargetForms(url) ==
    {basename(path_of(url)), unquote(basename(path_of(url))), path_of(url),
     unquote(path_of(url))}
\* a relative target whose path ends in .md
MdTarget(url) ==
    /\ ~has_scheme(url)
    /\ ~startswith(url, <<"#">>)
    /\ endswith(lower(path_of(url)), DotMd)
InMap(url, anchor_map) == TargetForms(url) \cap DOMAIN anchor_map # {}

\* C11: a link whose target path ends in .md and is in the anchor map under
\* one of its forms comes out with the target #<anchor>, the anchor being
\* the one the map gives that form, whatever files the map was built from.
C11_PresentLinkRewritten ==
    Rewritten =>
        \A i \in DOMAIN call.links :
            LET url == call.links[i].url
            IN  (MdTarget(url) /\ InMap(url, call.anchor_map)) =>
                    \E form \in TargetForms(url) \cap DOMAIN call.anchor_map :
                        targets_of(call.result)[i] = <<"#">> \o call.anchor_map[form]

\* C12: a link whose target has a URI scheme, starts with #, has a path not
\* ending in .md or is a .md target in none of its forms in the map keeps
\* its target; link texts and the text outside the targets never change.
C12_OtherLinksUnchanged ==
    Rewritten =>
        /\ outside_targets(call.result) = outside_targets(call.md_content)
        /\ Len(targets_of(call.result)) = Len(call.links)
        /\ \A i \in DOMAIN call.links :
              LET url == call.links[i].url
              IN  (~MdTarget(url) \/ ~InMap(url, call.anchor_map)) =>
                      targets_of(call.result)[i] = url

\* a link to https://x/a.md is kept while a.md is a file of the book
C12_Witness ==
    /\ Rewritten
    /\ <<"a", ".", "m", "d">> \in DOMAIN call.anchor_map
    /\ Len(call.links) = 1
    /\ call.links[1].url = <<"h", "t", "t", "p", "s", ":", "/", "/", "x", "/", "a", ".", "m", "d">>
    /\ call.result = call.md_content

(***************************************************************************)
(* resolve_file_path.                                                      *)
(***************************************************************************)
Resolved == call.op = "resolve_file_path" /\ call.done
HasExtension(ref) == endswith(ref, DotMd) \/ endswith(ref, DotPdf)

\* C15: an absolute reference is returned unchanged; otherwise root/ref when
\* it exists; otherwise, for a reference ending in neither .md nor .pdf,
\* root/ref.md when it exists, else root/ref.pdf when it exists; in every
\* other case root/ref, whether or not it exists.
C15_ResolveFilePath ==
    Resolved =>
        LET ref == call.file_ref
            at_root == join(call.root_dir, ref)
            with_md == join(call.root_dir, ref \o DotMd)
            with_pdf == join(call.root_dir, ref \o DotPdf)
            tries_extensions == ~isabs(ref) /\ at_root \notin call.existing /\ ~HasExtension(ref)
        IN  /\ isabs(ref) => call.result = ref
            /\ (~isabs(ref) /\ at_root \in call.existing) => call.result = at_root
            /\ (tries_extensions /\ with_md \in call.existing) => call.result = with_md
            /\ (tries_extensions /\ with_md \notin call.existing /\ with_pdf \in call.existing)
                  => call.result = with_pdf
            /\ (~isabs(ref) /\ at_root \notin call.existing
                   /\ (HasExtension(ref) \/ {with_md, with_pdf} \cap call.existing = {}))
                  => call.result = at_root

\* "a" with a.md and a.pdf both there and no file a: a.md wins
C15_Witness ==
    /\ Resolved
    /\ call.file_ref = <<"a">>
    /\ <<"/", "r", "/", "a">> \notin call.existing
    /\ {<<"/", "r", "/", "a", ".", "m", "d">>, <<"/", "r", "/", "a", ".", "p", "d", "f">>} \subseteq call.existing
    /\ call.result = <<"/", "r", "/", "a", ".", "m", "d">>

(***************************************************************************)
(* Title extraction.                                                       *)
(***************************************************************************)
TitleExtracted == call.op = "extract_title_from_markdown" /\ call.done
AtxAt(lines) == {i \in DOMAIN lines : lines[i].kind = "atx"}
RECURSIVE IsText(_, _)
\* line i is a line of text: a line of = is one unless it underlines the
\* line of text above it
IsText(lines, i) ==
    \/ lines[i].kind = "text"
    \/ lines[i].kind = "underline" /\ ~(i > 1 /\ IsText(lines, i - 1))
\* a line of text with a line of = right below it
SetextAt(lines) ==
    {i \in DOMAIN lines : /\ IsText(lines, i)
                          /\ i < Len(lines)
                          /\ lines[i + 1].kind = "underline"}

\* C16: with an ATX H1 in the content the title is the text of the first
\* one, whether or not a Setext H1 is there too; without an ATX H1 it is the
\* text of the first Setext H1; a ## heading is never the title; with no H1
\* at all the extraction gives None and the document is titled with the
\* configured fallback.
C16_TitlePrecedence ==
    TitleExtracted =>
        LET lines == call.lines
            atx == AtxAt(lines)
            setext == SetextAt(lines)
        IN  /\ atx # {} => call.extracted = lines[leftmost(atx)].text
            /\ (atx = {} /\ setext # {}) => call.extracted = lines[leftmost(setext)].text
            /\ \A i \in DOMAIN lines :
                  lines[i].kind = "h2" => call.extracted \notin {lines[i].text, lines[i].raw}
            /\ (atx = {} /\ setext = {}) =>
                  (call.extracted = NoTitle /\ call.title = HeaderFallback)

(***************************************************************************)
(* build_css_content.                                                      *)
(***************************************************************************)
IsTag(piece) == piece \in {PageTag, PagesTag}

RECURSIVE ExpectedParts(_, _)
\* the CSS parts of a template given in pieces: a counter for each
\* placeholder, one quoted string for each stretch of literal text (literal
\* holds the stretch read so far)
ExpectedParts(pieces, literal) ==
    LET flush == IF literal = <<>> THEN <<>> ELSE <<quoted(literal)>>
    IN  IF pieces = <<>> THEN flush
        ELSE IF pieces[1] = PageTag
        THEN flush \o <<CounterPage>> \o ExpectedParts(Tail(pieces), <<>>)
        ELSE IF pieces[1] = PagesTag
        THEN flush \o <<CounterPages>> \o ExpectedParts(Tail(pieces), <<>>)
        ELSE ExpectedParts(Tail(pieces), literal \o pieces[1])

\* C17: every {page} becomes counter(page) and every {pages} becomes
\* counter(pages), in the order they stand in the template, whatever that
\* order is, with each non-empty stretch of literal text between them as one
\* quoted string; a template with neither comes back as one quoted string.
C17_CountersInOrder ==
    (call.op = "build_css_content" /\ call.done) =>
        IF \E i \in DOMAIN call.pieces : IsTag(call.pieces[i])
        THEN call.result = join_space(ExpectedParts(call.pieces, <<>>))
        ELSE call.result = quoted(call.text)

(***************************************************************************)
(* The output path of a markdown source.                                   *)
(***************************************************************************)
\* path lies below dir
Below(path, dir) ==
    LET p == abspath_names(path)
        d == abspath_names(dir)
    IN  Len(p) > Len(d) /\ SubSeq(p, 1, Len(d)) = d

\* C18: for a markdown source the build accepts, the PDF path is output_dir
\* joined with the source's root-relative path, .md replaced by .pdf: it
\* starts with output_dir, lies below it and keeps the subdirectories of the
\* source.
C18_OutputPathUnderOutputDir ==
    (call.op = "get_output_pdf_path" /\ call.done /\ call.accepted) =>
        LET rel_path == relpath(call.file_path, call.root_dir)
        IN  /\ endswith(lower(rel_path), DotMd)
            /\ call.pdf_path = join(call.output_dir, drop_last(rel_path, 3) \o DotPdf)
            /\ startswith(call.pdf_path, call.output_dir \o <<"/">>)
            /\ Below(call.pdf_path, call.output_dir)

(***************************************************************************)
(* The order file.                                                         *)
(***************************************************************************)
Raised == pc \in {"FileNotFoundError", "JSONDecodeError"}
C19_NothingStarted ==
    order_file # "ok" =>
        /\ pc \in {"idle", "FileNotFoundError", "JSONDecodeError"}
        /\ (order_file = "missing" /\ Raised) => pc = "FileNotFoundError"
        /\ chapter_data = <<>> /\ front_cover_files = <<>> /\ back_cover_files = <<>>
        /\ all_files_to_convert = <<>>
        /\ ~batch.ran /\ rendering = {}
        /\ ordered_pdfs = <<>> /\ toc_lines = <<>> /\ merger = <<>> /\ ~book.written
C19_FilesystemUnchanged ==
    order_file # "ok" => (disk' = disk /\ output_dir_exists' = output_dir_exists)

\* C19: with a missing or malformed order file build_book raises
\* (FileNotFoundError when it is missing) before any file is resolved or
\* converted, before the output directory is made and before a TOC or a book
\* is written: the file system stays as it was.
C19_BadManifestAborts == []C19_NothingStarted /\ [][C19_FilesystemUnchanged]_vars

\* the build has raised on a missing order file and there is still no output
\* directory
C19_Witness ==
    /\ order_file = "missing"
    /\ pc = "FileNotFoundError"
    /\ ~output_dir_exists
    /\ disk = EmptyDisk

(***************************************************************************)
(* Unreadable PDFs.                                                        *)
(***************************************************************************)
BuildPositions ==
    {"idle", "convert", "front", "chapters", "adjust", "toc", "merge_front",
     "merge_toc", "merge_chapters", "merge_write", "done"}

RECURSIVE ReadablePagesOfFirst(_, _, _)
\* the pages of the first n PDFs of a list, an unreadable one counting for none
ReadablePagesOfFirst(pdfs, n, d) ==
    IF n = 0 THEN 0
    ELSE (IF pdfs[n] \in CorruptPdfs THEN 0 ELSE PdfPages(pdfs[n], d))
            + ReadablePagesOfFirst(pdfs, n - 1, d)

UnreadableContent == {k \in DOMAIN ordered_pdfs : ordered_pdfs[k] \in CorruptPdfs}
Merged == pc \in {"merge_write", "done"}

\* C20: an unreadable PDF never fails the build: the page-count probe answers
\* 0 for it, the planner counts it as 0 pages, the merge attempts to append
\* it, and the content PDFs after it, every bookmark and the back cover are
\* processed and the output file is written.
C20_UnreadablePdfTolerated ==
    /\ \A p \in CorruptPdfs : safe_get_page_count(p, disk) = 0
    /\ order_file = "ok" => pc \in BuildPositions
    /\ (Planned /\ UnreadableContent # {}) =>
          \A i \in 1..Len(chapter_info) :
              chapter_info[i].page =
                  1 + ReadablePagesOfFirst(ordered_pdfs, FilesBefore(chapter_info, i), disk)
                    + front_matter_offset(front_cover, disk)
    /\ (Merged /\ UnreadableContent # {}) =>
          LET content == ContentOf(merger)
          IN  /\ Len(content) = Len(ordered_pdfs)
              /\ \A k \in DOMAIN ordered_pdfs :
                    /\ content[k].path = ordered_pdfs[k]
                    /\ content[k].ok <=> k \notin UnreadableContent
                    /\ content[k].pages =
                          IF k \in UnreadableContent THEN 0
                          ELSE PdfPages(ordered_pdfs[k], disk)
              /\ Len(outline) = Len(chapter_info)
              /\ (back_cover # NoPath /\ isfile(back_cover, disk)) =>
                    /\ merger[Len(merger)].what = "back"
                    /\ merger[Len(merger)].ok
              /\ pc = "done" =>
                    /\ book.written
                    /\ book.merger = merger
                    /\ exists(output_file, disk)
                    /\ disk[output_file].style = "book"

\* a book was written whose content holds an unreadable PDF, a readable one
\* and a bookmark after it, and a back cover
C20_Witness ==
    /\ pc = "done"
    /\ book.written
    /\ back_cover # NoPath
    /\ \E k \in UnreadableContent :
          /\ k < Len(ordered_pdfs)
          /\ ordered_pdfs[k + 1] \notin CorruptPdfs
          /\ \E i \in 1..Len(chapter_info) : FilesBefore(chapter_info, i) >= k

(***************************************************************************)
(* Anchors of different files.                                             *)
(***************************************************************************)
\* C21: any two markdown files of the list with different basenames are
\* mapped to different anchor IDs.
C21_UniqueAnchors ==
    (call.op = "build_anchor_map" /\ call.done) =>
        \A i, j \in MdFilesOf(call.file_paths) :
            LET bi == basename(call.file_paths[i])
                bj == basename(call.file_paths[j])
            IN  bi # bj => call.anchor_map[bi] # call.anchor_map[bj]

(***************************************************************************)
(* The files of a directory.                                               *)
(***************************************************************************)
below(path, dir) == startswith(path, dir \o <<"/">>)

\* the files find_files_in_directory is to return for a directory that exists
Findable(dir_path, root_dir, files, ignore_patterns) ==
    {f \in files :
        /\ below(f, dir_path)
        /\ endswith(f, DotMd) \/ endswith(f, DotPdf)
        /\ ~is_ignored(relpath(f, root_dir), ignore_patterns)
        /\ \A a \in ancestors(f) :
              below(a, dir_path) => ~is_ignored(relpath(a, root_dir), ignore_patterns)}

Ascending(list) == \A i \in 1..(Len(list) - 1) : str_less(list[i], list[i + 1])

RECURSIVE Expansions(_, _)
Expansions(c, i) ==
    IF i > Len(c.chapter.folders) THEN <<>>
    ELSE find_files_in_directory(
             resolve_file_path_in(rstrip(c.chapter.folders[i], "/"), c.root_dir,
                                  c.files \cup dirs_of(c.files)),
             c.root_dir, c.files, c.ignore_patterns, c.descending)
            \o Expansions(c, i + 1)

\* C22: for an existing directory find_files_in_directory returns exactly the
\* .md and .pdf files at any depth that no ignore pattern matches (them or a
\* directory between them and the searched one), in lexicographic order of
\* the full path and the same however the file system lists names; for a
\* missing path or a non-directory it returns the empty list; the files of a
\* chapter are its explicit files in listed order, then the expansion of each
\* folder in listed order.
C22_FindFilesInDirectory ==
    /\ (call.op = "find_files_in_directory" /\ call.done) =>
          /\ call.dir_path \in dirs_of(call.files) =>
                /\ Range(call.result)
                      = Findable(call.dir_path, call.root_dir, call.files, call.ignore_patterns)
                /\ Len(call.result) = Cardinality(Range(call.result))
                /\ Ascending(call.result)
          /\ call.dir_path \notin dirs_of(call.files) => call.result = <<>>
          /\ call.other = call.result
    /\ (call.op = "collect_files_for_chapter" /\ call.done) =>
          LET n == Len(call.chapter.files)
          IN  /\ Len(call.result) >= n
              /\ \A i \in 1..n :
                    call.result[i] = resolve_file_path_in(call.chapter.files[i], call.root_dir,
                                                          call.files \cup dirs_of(call.files))
              /\ SubSeq(call.result, n + 1, Len(call.result)) = Expansions(call, 1)

\* the whole tree is searched: a file of d-x comes before a file of d, which
\* the walk meets first, and an ignored file is left out
C22_Witness ==
    /\ call.op = "find_files_in_directory"
    /\ call.done
    /\ ~call.descending
    /\ call.dir_path = RootPath
    /\ call.ignore_patterns # <<>>
    /\ Len(call.result) = 2
    /\ Cardinality(call.files) = 3
    /\ basename(call.result[1]) = <<"b", ".", "m", "d">>
    /\ parent(call.result[2]) = <<"/", "r", "/", "d">>

(***************************************************************************)
(* The life of chapter_info.                                               *)
(***************************************************************************)
SamePagesPlus(offset) ==
    /\ Len(chapter_info') = Len(chapter_info)
    /\ \A i \in 1..Len(chapter_info) :
          chapter_info'[i] = [chapter_info[i] EXCEPT !.page = @ + offset]

C23_ChapterInfoStep ==
    chapter_info' # chapter_info =>
        \/ pc \in {"idle", "done"} /\ chapter_info' = <<>>
        \/ /\ pc = "chapters" /\ pc' = "chapters"
           /\ Len(chapter_info') = Len(chapter_info) + 1
           /\ SubSeq(chapter_info', 1, Len(chapter_info)) = chapter_info
        \/ /\ pc = "adjust" /\ pc' = "toc"
           /\ chapter_index = Len(chapter_data)
           /\ toc_lines = <<>> /\ merger = <<>> /\ ~book.written
           /\ SamePagesPlus((IF front_cover # NoPath
                             THEN safe_get_page_count(front_cover, disk) ELSE 0) + 1)

C23_TocShowsFinalPages ==
    /\ pc \in {"convert", "front", "chapters", "adjust", "toc"} => toc_lines = <<>>
    /\ pc \in {"merge_front", "merge_toc", "merge_chapters", "merge_write", "done"} =>
          /\ Len(toc_lines) = Len(chapter_info)
          /\ \A i \in 1..Len(chapter_info) :
                /\ toc_lines[i].section = chapter_info[i].section
                /\ toc_lines[i].page = chapter_info[i].page
    /\ pc \in {"convert", "front", "chapters", "adjust", "toc", "merge_front"} => merger = <<>>

\* C23: the front-matter offset is added to each chapter's page exactly once,
\* after all chapters have been collected and before the TOC is rendered and
\* the merge starts; the TOC has one line per chapter_info entry in order with
\* that page, and neither create_toc_page nor the merge changes chapter_info.
C23_OffsetAddedOnce == []C23_TocShowsFinalPages /\ [][C23_ChapterInfoStep]_vars

\* a book with a front cover and two chapters: the TOC shows the pages that
\* include the offset
C23_Witness ==
    /\ pc = "done"
    /\ front_cover # NoPath
    /\ Len(chapter_info) >= 2
    /\ chapter_info[1].page = 1 + safe_get_page_count(front_cover, disk) + 1
    /\ toc_lines[2].page = chapter_info[2].page
    /\ toc_lines[2].page > toc_lines[1].page

(***************************************************************************)
(* The jump target of a document.                                          *)
(***************************************************************************)
AnchorTag(id) == <<"<", "a", " ", "i", "d", "=", "\"">> \o id \o <<"\"", ">", "<", "/", "a", ">", "\n">>

\* C24: the anchor element put first in the rendered HTML of a book file D
\* has the ID filename_to_anchor(basename(D)), the HTML follows unchanged, and
\* a link that names D by basename, by percent-encoded basename or by
\* root-relative path, when rewritten, gets the target # and that ID.
C24_JumpTargetReached ==
    (call.op = "convert_markdown_to_pdf" /\ call.done) =>
        LET id == filename_to_anchor(basename(call.file_paths[call.d]))
        IN  /\ call.html_result = AnchorTag(id) \o call.html_content
            /\ call.md_result # call.md_content =>
                  call.md_result = link(<<"t">>, <<"#">> \o id)

(***************************************************************************)
(* Placeholders.                                                           *)
(***************************************************************************)
Counters == {<<"p", "a", "g", "e">>, <<"p", "a", "g", "e", "s">>}
IsPlaceholder(part) == part[1] = "{"
key_of(part) == SubSeq(part, 2, Len(part) - 1)
HasValue(context, key) == \E i \in DOMAIN context : context[i].key = key /\ context[i].value # None
value_of(context, key) ==
    context[CHOOSE i \in DOMAIN context : context[i].key = key /\ context[i].value # None].value

\* a part of the text after the substitution the claim describes
Substituted(part, context) ==
    IF IsPlaceholder(part) /\ key_of(part) \notin Counters /\ HasValue(context, key_of(part))
    THEN value_of(context, key_of(part))
    ELSE part

PlainValues(context) == \A i \in DOMAIN context : "{" \notin Range(context[i].value)

\* the number of occurrences of sub in s
count(s, sub) == (Len(s) - Len(replace(s, sub, <<>>))) \div Len(sub)

\* C25: process_placeholder replaces every {key} whose key has a value other
\* than None in the context, except {page} and {pages}, which stay even when
\* the context has values for them; a placeholder whose key is absent or None
\* stays; an empty or None text gives the empty string.
C25_PlaceholdersReplaced ==
    (call.op = "process_placeholder" /\ call.done) =>
        /\ (call.text = None \/ call.text = <<>>) => call.result = <<>>
        /\ (call.text # None /\ PlainValues(call.context)) =>
              call.result =
                 concat([i \in DOMAIN call.parts |-> Substituted(call.parts[i], call.context)])
        /\ call.text # None =>
              \A part \in Range(call.parts) :
                  (IsPlaceholder(part) /\ Substituted(part, call.context) = part) =>
                      count(call.result, part) >= count(call.text, part)

\* "{title}{page}{date}" with values for page, pages, title and date
C25_Witness ==
    /\ call.op = "process_placeholder"
    /\ call.done
    /\ HasValue(call.context, <<"p", "a", "g", "e">>)
    /\ call.text = <<"{", "t", "i", "t", "l", "e", "}", "{", "p", "a", "g", "e", "}", "{", "d", "a", "t", "e", "}">>
    /\ call.result = <<"T", "{", "p", "a", "g", "e", "}", "D">>

(***************************************************************************)
(* One rendering per source.                                               *)
(***************************************************************************)
RECURSIVE OccurrencesIn(_, _)
\* how often a path occurs in a list
OccurrencesIn(files, path) ==
    IF files = <<>> THEN 0
    ELSE (IF files[1] = path THEN 1 ELSE 0) + OccurrencesIn(Tail(files), path)

RECURSIVE OccurrencesFrom(_, _)
\* how often a source occurs in the chapters of the manifest from chapter i on
OccurrencesFrom(i, path) ==
    IF i > Len(manifest) THEN 0
    ELSE OccurrencesIn(collect_files_for_chapter(manifest[i]), path)
            + OccurrencesFrom(i + 1, path)

InBook(pdf) == \E k \in DOMAIN book.merger : book.merger[k].path = pdf

\* C26: within one run, with force on or off, a markdown source that occurs
\* once in the manifest goes to the rendering engine at most once, and its
\* PDF in the merged book is one rendered with the manifest's settings and
\* anchor map, never one rendered with the built-in defaults.
C26_RenderedOnceWithSettings ==
    \A md \in DOMAIN engine_calls :
        OccurrencesFrom(1, md) = 1 =>
            /\ engine_calls[md] <= 1
            /\ (pc = "done" /\ engine_calls[md] >= 1 /\ InBook(get_output_pdf_path(md))) =>
                  disk[get_output_pdf_path(md)].style = "manifest"

(***************************************************************************)
(* The chapters' shares of the content list.                               *)
(***************************************************************************)
\* the PDFs of the content list that chapter i of chapter_info counts
ShareOf(i) ==
    SubSeq(ordered_pdfs, FilesBefore(chapter_info, i) + 1, FilesBefore(chapter_info, i + 1))

\* C27: the file counts of chapter_info add up to the length of the content
\* list, each chapter counting the PDFs collected for it; the merge appends
\* every PDF of the list once, in list order, while its chapter is the one
\* entered, and the merge index ends at the length of the list.
C27_CountsPartitionContent ==
    /\ Planned =>
          /\ FilesBefore(chapter_info, Len(chapter_info) + 1) = Len(ordered_pdfs)
          /\ \A i \in 1..Len(chapter_info) : ShareOf(i) = UsablePdfs(KeptChapters[i].files)
    /\ pc \in {"merge_chapters", "merge_write", "done"} =>
          LET content == ContentOf(merger)
          IN  /\ Len(content) = pdf_index - 1
              /\ Len(content) <= Len(ordered_pdfs)
              /\ \A k \in DOMAIN content : content[k].path = ordered_pdfs[k]
              /\ Len(outline) = merge_chapter
              /\ IF merge_chapter = 0 THEN pdf_index = 1 /\ merge_left = 0
                 ELSE pdf_index - 1 =
                         FilesBefore(chapter_info, merge_chapter)
                            + chapter_info[merge_chapter].files - merge_left
    /\ pc \in {"merge_write", "done"} =>
          /\ pdf_index - 1 = Len(ordered_pdfs)
          /\ merge_chapter = Len(chapter_info)
          /\ merge_left = 0

\* two chapters, the first with two PDFs, merged to the end
C27_Witness ==
    /\ pc = "done"
    /\ Len(chapter_info) = 2
    /\ chapter_info[1].files = 2
    /\ Len(ordered_pdfs) >= 3
    /\ pdf_index - 1 = Len(ordered_pdfs)
    /\ ContentOf(book.merger)[3].path = ShareOf(2)[1]

(***************************************************************************)
(* The tallies of a batch.                                                 *)
(***************************************************************************)
\* C28: for any list of file paths given to convert_files_parallel, converted
\* + cached (len(pdf_paths) - converted) + failed is the number of input
\* files, with 0 <= converted <= len(pdf_paths); the total convert_all returns
\* is converted + cached + failed.
C28_TalliesAccountForAll ==
    /\ (call.op = "convert_files_parallel" /\ call.done) =>
          /\ call.converted_count + (Len(call.pdf_paths) - call.converted_count)
                + call.failed_count = Len(call.file_paths)
          /\ 0 <= call.converted_count
          /\ call.converted_count <= Len(call.pdf_paths)
    /\ (call.op = "convert_all" /\ call.done) =>
          call.total = call.converted + call.cached + call.failed

(***************************************************************************)
(* The cache across an edit of the settings.                               *)
(***************************************************************************)
\* C29: in a build with force off that follows a build and an edit of only
\* the page settings, style settings, title or book files, every markdown
\* file the earlier build has a PDF for is a cache hit, its PDF stays as it
\* was, and that PDF is among the PDFs of the new book.
C29_SettingsLeaveCache ==
    (call.op = "rerun" /\ call.phase \in {"batch", "done"} /\ ~call.force) =>
        /\ \A i \in 1..Len(call.results) :
              call.files[i] \in call.had =>
                 /\ call.results[i].error = ""
                 /\ ~call.results[i].was_converted
                 /\ call.results[i].pdf_path = get_output_pdf_path(call.files[i])
        /\ \A md \in call.had :
              call.d[get_output_pdf_path(md)] = call.before[get_output_pdf_path(md)]
        /\ call.phase = "done" =>
              \A i \in 1..Len(call.files) :
                  call.files[i] \in call.had =>
                      \E j \in 1..Len(call.pdfs) :
                          call.pdfs[j] = get_output_pdf_path(call.files[i])

\* the first build rendered a.md with one set of settings; the second build,
\* force off and with the other settings, has a.md and a new file in its book
C29_Witness ==
    /\ call.op = "rerun"
    /\ call.phase = "done"
    /\ ~call.force
    /\ Path(RootDir, "a", "md") \in call.had
    /\ call.before[get_output_pdf_path(Path(RootDir, "a", "md"))].style # call.style
    /\ \E i \in 1..Len(call.files) :
          /\ call.files[i] = Path(RootDir, "a", "md")
          /\ ~call.results[i].was_converted
    /\ \E i \in 1..Len(call.files) :
          /\ call.files[i] \notin call.had
          /\ call.results[i].was_converted

(***************************************************************************)
(* The artifacts of one build in the output directory.                     *)
(***************************************************************************)
\* C30: for any source names, outputFilename and tocFilename, the path of the
\* final book and the path of the TOC differ from each other and from the
\* path of every converted chapter PDF.
C30_ArtifactsApart ==
    (call.op = "artifacts" /\ call.done) =>
        /\ call.output_file # call.toc_pdf
        /\ \A i \in 1..Len(call.pdf_paths) :
              /\ call.pdf_paths[i] # call.output_file
              /\ call.pdf_paths[i] # call.toc_pdf
====
